---------------------------- MODULE Spec2Model ----------------------------
(***************************************************************************)
(* A model of axum-test: the TestServer (src/src/test_server.rs), its      *)
(* shared state (cookie jar, default headers, default query parameters),   *)
(* the TestRequest builder and its dispatch through a transport layer.     *)
(*                                                                         *)
(* Strings that the program takes apart (paths, URLs) are sequences of     *)
(* tokens: "/ping" is <<"/", "ping">>, "http://h:1/ping" is                *)
(* <<"http://h:1", "/", "ping">>.  An Option<T> is a sequence of length    *)
(* 0 (None) or 1 (Some).                                                   *)
(***************************************************************************)
EXTENDS Integers, Sequences, FiniteSets, TLC

VARIABLES
    server,     \* TestServer fields, per server: save_cookies, expected_state, ...
    transport,  \* the TransportLayer of each server behind its Mutex and Arc:
                \* who holds the lock, whether the TestServer holds its
                \* handle, whether the transport is still alive
    state,      \* the ServerSharedState of each server: cookies, headers,
                \* query_params, and whether its Mutex is locked
    requests,   \* the TestRequests alive (and the responses they became), by slot;
                \* "seen" is history: the cookie events before an in-flight send
    log         \* history: the cookie events of each server, in order

vars == <<server, transport, state, requests, log>>

-----------------------------------------------------------------------------
(* Bounds of the model *)

MaxRequests == 1    \* TestRequests (and their responses) alive at one time
MaxLog == 2         \* cookie events recorded per server
MaxList == 2        \* length of a header or query-parameter list
MaxCalls == 3       \* calls on a server (construction included) that are recorded
MaxTasks == 2       \* tasks that make requests on one server concurrently

-----------------------------------------------------------------------------
(* Option<T> *)

None == <<>>

Some(x) == <<x>>

IsSome(o) == o # <<>>

Unwrap(o) == o[1]

UnwrapOr(o, d) == IF o # <<>> THEN o[1] ELSE d

OptionOf(S) == {None} \cup {Some(x) : x \in S}

SeqUpTo(S, n) == UNION {[1..k -> S] : k \in 0..n}

-----------------------------------------------------------------------------
(* Values *)

Servers == {"A", "B"}

CookieNames == {"first-cookie", "second-cookie"}

CookieValues == {"my-custom-cookie", "other-cookie"}

Cookie(n, v) == [name |-> n, value |-> v]

Cookies == {Cookie(n, v) : n \in CookieNames, v \in CookieValues}

JSON_CONTENT_TYPE == "application/json"

TEXT_CONTENT_TYPE == "text/plain"

FORM_CONTENT_TYPE == "application/x-www-form-urlencoded"

XML_CONTENT_TYPE == "application/xml"

ContentTypes == {TEXT_CONTENT_TYPE, JSON_CONTENT_TYPE, XML_CONTENT_TYPE}

BodyKinds == {"absent", "bytes", "form", "json", "text"}

ExpectedStates == {"None", "Success", "Failure"}

Methods == {"GET", "PUT"}

Statuses == {200, 202, 404, 500}

DEFAULT_URL_ADDRESS == [origin |-> "http://localhost", path |-> <<"/">>]

BoundAddress == [origin |-> "http://127.0.0.1:8080", path |-> <<"/">>]

PingPath == <<"/", "ping">>

BarePath == <<"ping">>

AbsolutePath == <<"http://127.0.0.1:8080", "/", "ping">>

\* An absolute URL without a path, and one of another host.
OriginPath == <<"http://127.0.0.1:8080">>

ElsewherePath == <<"http://localhost", "/", "ping">>

Origins == {"http://localhost", "http://127.0.0.1:8080"}

Header(n, v) == [name |-> n, value |-> v]

TEST_HEADER == Header("test-header", "Test header content")

OTHER_HEADER == Header("other-header", "Other header content")

QueryParam(k, v) == [key |-> k, value |-> v]

MESSAGE_PARAM == QueryParam("message", "it works")

OTHER_PARAM == QueryParam("other", "yup")

-----------------------------------------------------------------------------
(* Url: parsing, Url::set_path, formatting *)

\* str.parse::<Url>(): only a string with a scheme and host is a Url.
ParseUrl(str) ==
    IF str # <<>> /\ str[1] \in Origins
    THEN Some([origin |-> str[1],
               path |-> IF Len(str) = 1 THEN <<"/">> ELSE Tail(str)])
    ELSE None

\* Url::set_path: the path of a http Url always starts with "/".
SetPath(url, str) ==
    [url EXCEPT !.path = IF str # <<>> /\ str[1] = "/" THEN str ELSE <<"/">> \o str]

UrlToString(url) == <<url.origin>> \o url.path

\* Mutant: an absolute URL is taken as it is, restricted or not.
build_url_IgnoresRestriction(url, path, is_http_restricted) ==
    IF IsSome(ParseUrl(path)) THEN Unwrap(ParseUrl(path)) ELSE SetPath(url, path)

\* Mutant: the path is always set on the server's URL, absolute or not.
build_url_AlwaysRebases(url, path, is_http_restricted) == SetPath(url, path)

build_url(url, path, is_http_restricted) ==
    IF is_http_restricted
    THEN SetPath(url, path)
    ELSE IF IsSome(ParseUrl(path))
         THEN Unwrap(ParseUrl(path))
         ELSE SetPath(url, path)

-----------------------------------------------------------------------------
(* CookieJar: a set of cookies with at most one cookie per name *)

JarNames(jar) == {c.name : c \in jar}

\* CookieJar::add: a cookie of the same name is replaced.
JarAdd(jar, cookie) == {c \in jar : c.name # cookie.name} \cup {cookie}

RECURSIVE JarAddAll(_, _)
\* for cookie in cookies.iter() { jar.add(cookie) }
JarAddAll(jar, cookies) ==
    IF cookies = {} THEN jar
    ELSE LET c == CHOOSE x \in cookies : TRUE
         IN  JarAddAll(JarAdd(jar, c), cookies \ {c})

RECURSIVE JarAddSeq(_, _)
\* The same, for cookies that come in an order (response headers).
JarAddSeq(jar, cookies) ==
    IF cookies = <<>> THEN jar
    ELSE JarAddSeq(JarAdd(jar, Head(cookies)), Tail(cookies))

IsJar(jar) == \A c, d \in jar : c.name = d.name => c = d

Jars == {jar \in SUBSET Cookies : IsJar(jar)}

-----------------------------------------------------------------------------
(* ServerSharedState: cookies, headers, query_params *)

\* Mutex::new(ServerSharedState::new()): empty and unlocked.
ServerSharedState_new ==
    [cookies |-> {}, headers |-> <<>>, query_params |-> <<>>, locked |-> FALSE]

ServerSharedState_add_cookie(st, cookie) ==
    [st EXCEPT !.cookies = JarAdd(@, cookie)]

ServerSharedState_add_cookies(st, cookies) ==
    [st EXCEPT !.cookies = JarAddAll(@, cookies)]

ServerSharedState_clear_cookies(st) == [st EXCEPT !.cookies = {}]

ServerSharedState_add_header(st, name, value) ==
    [st EXCEPT !.headers = Append(@, Header(name, value))]

ServerSharedState_clear_headers(st) == [st EXCEPT !.headers = <<>>]

ServerSharedState_add_query_param(st, key, value) ==
    [st EXCEPT !.query_params = Append(@, QueryParam(key, value))]

\* A query-parameter source: a list of pairs is used verbatim, an object
\* gives one pair per field, a scalar gives one pair.
QuerySourcePairs(source) ==
    IF source.kind = "pairs" THEN source.pairs
    ELSE IF source.kind = "object" THEN source.fields
    ELSE <<source.pair>>

ServerSharedState_add_query_params(st, source) ==
    [st EXCEPT !.query_params = @ \o QuerySourcePairs(source)]

ServerSharedState_clear_query_params(st) == [st EXCEPT !.query_params = <<>>]

-----------------------------------------------------------------------------
(* History of the cookie events of a server *)

LogNew == [events |-> <<>>, complete |-> TRUE]

\* The history is kept while it fits in MaxLog events; after that it is
\* marked incomplete and says nothing.
LogAppend(l, event) ==
    IF l.complete /\ Len(l.events) < MaxLog
    THEN [l EXCEPT !.events = Append(@, event)]
    ELSE [events |-> <<>>, complete |-> FALSE]

\* The same for the other calls on a server (headers, query parameters,
\* expectations), which are recorded up to MaxCalls events.
CallLogAppend(l, event) ==
    IF l.complete /\ Len(l.events) < MaxCalls
    THEN [l EXCEPT !.events = Append(@, event)]
    ELSE [events |-> <<>>, complete |-> FALSE]

Called(s, event) == log' = [log EXCEPT ![s] = CallLogAppend(@, event)]

-----------------------------------------------------------------------------
(* TestServer: construction *)

TransportKinds == {"Default", "HttpRandomPort", "HttpIpPort", "MockHttp"}

TestServerConfig_default ==
    [transport |-> "Default",
     save_cookies |-> FALSE,
     expect_success_by_default |-> FALSE,
     restrict_requests_with_http_schema |-> FALSE,
     default_content_type |-> None]

\* Mutant: every service is served from a bound socket.
TransportOf_AlwaysSocket(config) ==
    [kind |-> "http", url |-> Some(BoundAddress),
     guard |-> None, handle |-> TRUE, running |-> TRUE]

\* Mutant: every service is called in process.
TransportOf_AlwaysMock(config) ==
    [kind |-> "mock", url |-> None,
     guard |-> None, handle |-> TRUE, running |-> TRUE]

\* Mutant: the mock transport has an address as well.
TransportOf_MockHasAddress(config) ==
    [kind |-> IF config.transport \in {"HttpRandomPort", "HttpIpPort"} THEN "http" ELSE "mock",
     url |-> Some(BoundAddress),
     guard |-> None, handle |-> TRUE, running |-> TRUE]

\* The transport layer a configuration selects: a bound socket has the
\* address it was bound to, the mock transport has none.
\* Behind Arc<Mutex<..>>: nobody holds the lock, the TestServer holds a
\* handle, and the transport is alive (for a bound socket: the accept-loop
\* task runs and the port is held).
TransportOf(config) ==
    IF config.transport \in {"HttpRandomPort", "HttpIpPort"}
    THEN [kind |-> "http", url |-> Some(BoundAddress),
          guard |-> None, handle |-> TRUE, running |-> TRUE]
    ELSE [kind |-> "mock", url |-> None,
          guard |-> None, handle |-> TRUE, running |-> TRUE]

\* What binding the listening socket comes to: the address is free and the
\* socket is bound, or it is taken and tcp_listener_with_reserved_port fails.
BindOutcomes == {"bound", "in_use"}

\* No transport layer was built: there is nothing to hold a handle to.
NoTransport ==
    [kind |-> "none", url |-> None, guard |-> None, handle |-> FALSE, running |-> FALSE]

\* Mutant: a socket that cannot be bound is found out by the first request.
TransportResult_DefersFailure(config, bind) == TransportOf(config)

\* The `?` of new_with_config: the error of building the transport layer is
\* the result of the construction.  Only a bound socket needs the address;
\* the mock transport is built from the service alone.
TransportResult(config, bind) ==
    IF config.transport \in {"HttpRandomPort", "HttpIpPort"} /\ bind = "in_use"
    THEN NoTransport
    ELSE TransportOf(config)

\* Mutant: every server expects success, whatever its configuration.
new_with_config_ExpectsSuccess(config) ==
    [save_cookies |-> config.save_cookies,
     expected_state |-> "Success",
     default_content_type |-> config.default_content_type,
     is_http_path_restricted |-> config.restrict_requests_with_http_schema]

new_with_config(config) ==
    [save_cookies |-> config.save_cookies,
     expected_state |-> IF config.expect_success_by_default THEN "Success" ELSE "None",
     default_content_type |-> config.default_content_type,
     is_http_path_restricted |-> config.restrict_requests_with_http_schema]

-----------------------------------------------------------------------------
(* TestServer: the operations on the server *)

\* Mutant: the lock is not given back when the operation is over.
Touch_KeepsLock(s, st) ==
    /\ ~state[s].locked
    /\ state' = [state EXCEPT ![s] = [st EXCEPT !.locked = TRUE]]

\* One operation on the shared state: the lock is taken, the state changed,
\* the lock released.
Touch(s, st) ==
    /\ ~state[s].locked
    /\ state' = [state EXCEPT ![s] = st]

\* Mutant: the cookie is put next to the one of the same name.
add_cookie_KeepsBoth(s, cookie) ==
    /\ Touch(s, [state[s] EXCEPT !.cookies = @ \cup {cookie}])
    /\ log' = [log EXCEPT ![s] = LogAppend(@, <<"add_cookie", cookie>>)]
    /\ UNCHANGED <<server, transport, requests>>

\* Mutant: the shared state is one for the whole process, not one per server.
add_cookie_ProcessWide(s, cookie) ==
    /\ state' = [t \in Servers |-> ServerSharedState_add_cookie(state[t], cookie)]
    /\ log' = [log EXCEPT ![s] = LogAppend(@, <<"add_cookie", cookie>>)]
    /\ UNCHANGED <<server, transport, requests>>

\* Mutant: a cookie whose name is in the jar already is not replaced.
add_cookie_KeepsFirst(s, cookie) ==
    /\ Touch(s, IF cookie.name \in JarNames(state[s].cookies)
                THEN state[s]
                ELSE ServerSharedState_add_cookie(state[s], cookie))
    /\ log' = [log EXCEPT ![s] = LogAppend(@, <<"add_cookie", cookie>>)]
    /\ UNCHANGED <<server, transport, requests>>

add_cookie(s, cookie) ==
    /\ Touch(s, ServerSharedState_add_cookie(state[s], cookie))
    /\ log' = [log EXCEPT ![s] = LogAppend(@, <<"add_cookie", cookie>>)]
    /\ UNCHANGED <<server, transport, requests>>

\* Mutant: the cookies of the jar are added one at a time, the lock being
\* given back in between.
add_cookies_OneAtATime(s, cookies) ==
    /\ \E c \in cookies : Touch(s, ServerSharedState_add_cookie(state[s], c))
    /\ log' = [log EXCEPT ![s] = LogAppend(@, <<"add_cookies", cookies>>)]
    /\ UNCHANGED <<server, transport, requests>>

add_cookies(s, cookies) ==
    /\ Touch(s, ServerSharedState_add_cookies(state[s], cookies))
    /\ log' = [log EXCEPT ![s] = LogAppend(@, <<"add_cookies", cookies>>)]
    /\ UNCHANGED <<server, transport, requests>>

\* Mutant: the headers are cleared instead of the cookies.
clear_cookies_ClearsHeaders(s) ==
    /\ Touch(s, ServerSharedState_clear_headers(state[s]))
    /\ log' = [log EXCEPT ![s] = LogAppend(@, <<"clear_cookies">>)]
    /\ UNCHANGED <<server, transport, requests>>

clear_cookies(s) ==
    /\ Touch(s, ServerSharedState_clear_cookies(state[s]))
    /\ log' = [log EXCEPT ![s] = LogAppend(@, <<"clear_cookies">>)]
    /\ UNCHANGED <<server, transport, requests>>

\* Mutant: the call reaches the requests that were created on the server
\* and not awaited yet.
do_save_cookies_ReachesRequests(s) ==
    /\ server' = [server EXCEPT ![s].save_cookies = TRUE]
    /\ requests' = [r \in DOMAIN requests |->
                      IF requests[r].server = s /\ requests[r].phase = "Building"
                      THEN [requests[r] EXCEPT !.config.is_saving_cookies = TRUE]
                      ELSE requests[r]]
    /\ UNCHANGED <<transport, state, log>>

do_save_cookies(s) ==
    /\ server' = [server EXCEPT ![s].save_cookies = TRUE]
    /\ UNCHANGED <<transport, state, requests, log>>

do_not_save_cookies(s) ==
    /\ server' = [server EXCEPT ![s].save_cookies = FALSE]
    /\ UNCHANGED <<transport, state, requests, log>>

\* Mutant: the call leaves the server without an expectation.
expect_success_ExpectsNothing(s) ==
    /\ server' = [server EXCEPT ![s].expected_state = "None"]
    /\ Called(s, <<"expect_success">>)
    /\ UNCHANGED <<transport, state, requests>>

expect_success(s) ==
    /\ server' = [server EXCEPT ![s].expected_state = "Success"]
    /\ Called(s, <<"expect_success">>)
    /\ UNCHANGED <<transport, state, requests>>

\* Mutant: the call makes the server expect success.
expect_failure_ExpectsSuccess(s) ==
    /\ server' = [server EXCEPT ![s].expected_state = "Success"]
    /\ Called(s, <<"expect_failure">>)
    /\ UNCHANGED <<transport, state, requests>>

expect_failure(s) ==
    /\ server' = [server EXCEPT ![s].expected_state = "Failure"]
    /\ Called(s, <<"expect_failure">>)
    /\ UNCHANGED <<transport, state, requests>>

\* Mutant: a pair replaces the pairs of the same key that are in the list.
add_query_param_ReplacesKey(s, key, value) ==
    /\ Len(state[s].query_params) < MaxList
    /\ LET OtherKey(p) == p.key # key
       IN  Touch(s, [state[s] EXCEPT
                       !.query_params = Append(SelectSeq(@, OtherKey), QueryParam(key, value))])
    /\ Called(s, <<"add_query_param", QueryParam(key, value)>>)
    /\ UNCHANGED <<server, transport, requests>>

add_query_param(s, key, value) ==
    /\ Len(state[s].query_params) < MaxList
    /\ Touch(s, ServerSharedState_add_query_param(state[s], key, value))
    /\ Called(s, <<"add_query_param", QueryParam(key, value)>>)
    /\ UNCHANGED <<server, transport, requests>>

\* Mutant: adding query parameters empties the cookie jar.
add_query_params_ClearsCookies(s, source) ==
    /\ Len(state[s].query_params) + Len(QuerySourcePairs(source)) <= MaxList
    /\ Touch(s, ServerSharedState_clear_cookies(
                    ServerSharedState_add_query_params(state[s], source)))
    /\ Called(s, <<"add_query_params", source>>)
    /\ UNCHANGED <<server, transport, requests>>

add_query_params(s, source) ==
    /\ Len(state[s].query_params) + Len(QuerySourcePairs(source)) <= MaxList
    /\ Touch(s, ServerSharedState_add_query_params(state[s], source))
    /\ Called(s, <<"add_query_params", source>>)
    /\ UNCHANGED <<server, transport, requests>>

\* Mutant: the headers are cleared instead of the query parameters.
clear_query_params_ClearsHeaders(s) ==
    /\ Touch(s, ServerSharedState_clear_headers(state[s]))
    /\ Called(s, <<"clear_query_params">>)
    /\ UNCHANGED <<server, transport, requests>>

clear_query_params(s) ==
    /\ Touch(s, ServerSharedState_clear_query_params(state[s]))
    /\ Called(s, <<"clear_query_params">>)
    /\ UNCHANGED <<server, transport, requests>>

\* Mutant: a header replaces the headers of the same name that are in the list.
add_header_ReplacesName(s, name, value) ==
    /\ Len(state[s].headers) < MaxList
    /\ LET OtherName(h) == h.name # name
       IN  Touch(s, [state[s] EXCEPT
                       !.headers = Append(SelectSeq(@, OtherName), Header(name, value))])
    /\ Called(s, <<"add_header", Header(name, value)>>)
    /\ UNCHANGED <<server, transport, requests>>

add_header(s, name, value) ==
    /\ Len(state[s].headers) < MaxList
    /\ Touch(s, ServerSharedState_add_header(state[s], name, value))
    /\ Called(s, <<"add_header", Header(name, value)>>)
    /\ UNCHANGED <<server, transport, requests>>

\* Mutant: the query parameters are cleared instead of the headers.
clear_headers_ClearsQueryParams(s) ==
    /\ Touch(s, ServerSharedState_clear_query_params(state[s]))
    /\ Called(s, <<"clear_headers">>)
    /\ UNCHANGED <<server, transport, requests>>

clear_headers(s) ==
    /\ Touch(s, ServerSharedState_clear_headers(state[s]))
    /\ Called(s, <<"clear_headers">>)
    /\ UNCHANGED <<server, transport, requests>>

\* TestServer::url: the address of the transport layer, if it has one.
url(s) == transport[s].url

server_address(s) == url(s)

\* Mutant: the server's expectation is not passed on to the request.
test_request_config_ExpectsNothing(s, method, path) ==
    [is_saving_cookies |-> server[s].save_cookies,
     expected_state |-> "None",
     content_type |-> server[s].default_content_type,
     full_request_url |-> build_url(UnwrapOr(url(s), DEFAULT_URL_ADDRESS), path,
                                    server[s].is_http_path_restricted),
     request_format |-> [method |-> method, path |-> path]]

\* Mutant: the server's default content type is not passed on to the request.
test_request_config_NoContentType(s, method, path) ==
    [is_saving_cookies |-> server[s].save_cookies,
     expected_state |-> server[s].expected_state,
     content_type |-> None,
     full_request_url |-> build_url(UnwrapOr(url(s), DEFAULT_URL_ADDRESS), path,
                                    server[s].is_http_path_restricted),
     request_format |-> [method |-> method, path |-> path]]

\* Mutant: the server's save_cookies flag is not passed on to the request.
test_request_config_NeverSaves(s, method, path) ==
    [is_saving_cookies |-> FALSE,
     expected_state |-> server[s].expected_state,
     content_type |-> server[s].default_content_type,
     full_request_url |-> build_url(UnwrapOr(url(s), DEFAULT_URL_ADDRESS), path,
                                    server[s].is_http_path_restricted),
     request_format |-> [method |-> method, path |-> path]]

test_request_config(s, method, path) ==
    [is_saving_cookies |-> server[s].save_cookies,
     expected_state |-> server[s].expected_state,
     content_type |-> server[s].default_content_type,
     full_request_url |-> build_url(UnwrapOr(url(s), DEFAULT_URL_ADDRESS), path,
                                    server[s].is_http_path_restricted),
     request_format |-> [method |-> method, path |-> path]]

-----------------------------------------------------------------------------
(* TestRequest: the builder *)

Slots == 1..MaxRequests

\* A slot that holds no request: nothing was created in it, or what was
\* created has been dropped.
FreeSlot ==
    [server |-> "A",
     phase |-> "Free",
     config |-> [is_saving_cookies |-> FALSE,
                 expected_state |-> "None",
                 content_type |-> None,
                 full_request_url |-> DEFAULT_URL_ADDRESS,
                 request_format |-> [method |-> "GET", path |-> <<>>]],
     body |-> "absent",
     content_type |-> None,
     headers |-> <<>>,
     query_params |-> <<>>,
     is_saving_cookies |-> None,
     expected_state |-> None,
     sent |-> None,
     seen |-> None,
     sends |-> 0,
     response |-> None]

TestRequest_new(s, config) ==
    [FreeSlot EXCEPT !.server = s, !.phase = "Building", !.config = config]

\* Mutant: the request takes a copy of the shared state with it instead of
\* a handle to it (the copy is kept in the place of the other server).
method_CopiesState(s, r, m, path) ==
    /\ transport[s].handle
    /\ transport[s].guard = None
    /\ requests[r].phase = "Free"
    /\ LET copy == CHOOSE t \in Servers : t # s
       IN  /\ requests' = [requests EXCEPT
                  ![r] = TestRequest_new(copy, test_request_config(s, m, path))]
           /\ state' = [state EXCEPT ![copy] = state[s]]
    /\ UNCHANGED <<server, transport, log>>

\* Mutant: the request goes out when it is created.
method_SendsEagerly(s, r, m, path) ==
    /\ transport[s].handle
    /\ transport[s].guard = None
    /\ requests[r].phase = "Free"
    /\ requests' = [requests EXCEPT
           ![r] = [TestRequest_new(s, test_request_config(s, m, path)) EXCEPT !.sends = 1]]
    /\ UNCHANGED <<server, transport, state, log>>

\* TestServer::method, with get, post, patch, put and delete calling it.
method(s, r, m, path) ==
    /\ transport[s].handle
    /\ transport[s].guard = None
    /\ requests[r].phase = "Free"
    /\ requests' = [requests EXCEPT ![r] = TestRequest_new(s, test_request_config(s, m, path))]
    /\ UNCHANGED <<server, transport, state, log>>

Building(r) == requests[r].phase = "Building"

Build(r, request) ==
    /\ Building(r)
    /\ requests' = [requests EXCEPT ![r] = request]
    /\ UNCHANGED <<server, transport, state, log>>

TestRequest_bytes(r) == Build(r, [requests[r] EXCEPT !.body = "bytes"])

TestRequest_text(r) == Build(r, [requests[r] EXCEPT !.body = "text"])

TestRequest_form(r) == Build(r, [requests[r] EXCEPT !.body = "form"])

TestRequest_json(r) == Build(r, [requests[r] EXCEPT !.body = "json"])

TestRequest_content_type(r, content_type) ==
    Build(r, [requests[r] EXCEPT !.content_type = Some(content_type)])

TestRequest_add_header(r, name, value) ==
    /\ Len(requests[r].headers) < MaxList
    /\ Build(r, [requests[r] EXCEPT !.headers = Append(@, Header(name, value))])

TestRequest_add_query_param(r, key, value) ==
    /\ Len(requests[r].query_params) < MaxList
    /\ Build(r, [requests[r] EXCEPT !.query_params = Append(@, QueryParam(key, value))])

TestRequest_do_save_cookies(r) ==
    Build(r, [requests[r] EXCEPT !.is_saving_cookies = Some(TRUE)])

TestRequest_do_not_save_cookies(r) ==
    Build(r, [requests[r] EXCEPT !.is_saving_cookies = Some(FALSE)])

TestRequest_expect_success(r) ==
    Build(r, [requests[r] EXCEPT !.expected_state = Some("Success")])

TestRequest_expect_failure(r) ==
    Build(r, [requests[r] EXCEPT !.expected_state = Some("Failure")])

\* The override to no expectation at all.
TestRequest_expect_none(r) ==
    Build(r, [requests[r] EXCEPT !.expected_state = Some("None")])

\* The requests that hold a handle to the transport of s: a request keeps
\* its handles until it is consumed by its await or dropped.
Holders(s, reqs) ==
    {r \in DOMAIN reqs : reqs[r].server = s /\ reqs[r].phase \in {"Building", "InFlight"}}

\* The transport after a handle to it went away: it is dropped with its last
\* handle, and a bound socket's accept-loop task and port go with it.
Released(tr, handle, holders) ==
    [tr EXCEPT !.handle = handle, !.running = @ /\ (handle \/ holders # {})]

\* A request that is never awaited, or the outcome of one that was, goes
\* out of scope.
drop(r) ==
    /\ requests[r].phase \in {"Building", "Dispatched", "Aborted", "Failed"}
    /\ requests' = [requests EXCEPT ![r] = FreeSlot]
    /\ LET s == requests[r].server
       IN  transport' = [transport EXCEPT
                           ![s] = Released(@, @.handle, Holders(s, requests'))]
    /\ UNCHANGED <<server, state, log>>

\* Mutant: the transport goes with the TestServer value, whoever else
\* holds it.
drop_server_TearsDown(s) ==
    /\ transport[s].handle
    /\ transport' = [transport EXCEPT ![s].handle = FALSE, ![s].running = FALSE]
    /\ UNCHANGED <<server, state, requests, log>>

\* Mutant: the transport is leaked, its task and port stay behind.
drop_server_LeaksTransport(s) ==
    /\ transport[s].handle
    /\ transport' = [transport EXCEPT ![s].handle = FALSE]
    /\ UNCHANGED <<server, state, requests, log>>

\* The TestServer value goes out of scope: its handles to the transport and
\* to the shared state are dropped.
drop_server(s) ==
    /\ transport[s].handle
    /\ transport' = [transport EXCEPT ![s] = Released(@, FALSE, Holders(s, requests))]
    /\ UNCHANGED <<server, state, requests, log>>

-----------------------------------------------------------------------------
(* TestRequest: dispatch *)

\* The content type a body variant implies.
InferredContentType(body) ==
    IF body = "json" THEN Some(JSON_CONTENT_TYPE)
    ELSE IF body = "text" THEN Some(TEXT_CONTENT_TYPE)
    ELSE IF body = "form" THEN Some(FORM_CONTENT_TYPE)
    ELSE None

\* Mutant: the server's default masks the inference from the body.
ResolveContentType_DefaultFirst(request) ==
    IF IsSome(request.content_type) THEN request.content_type
    ELSE IF IsSome(request.config.content_type) THEN request.config.content_type
    ELSE InferredContentType(request.body)

\* Mutant: the server's default masks the request's explicit content type.
ResolveContentType_IgnoresOverride(request) ==
    IF IsSome(request.config.content_type) THEN request.config.content_type
    ELSE IF IsSome(request.content_type) THEN request.content_type
    ELSE InferredContentType(request.body)

\* Step 4: explicit override, else inference from the body, else the
\* server's default, else none.
ResolveContentType(request) ==
    IF IsSome(request.content_type) THEN request.content_type
    ELSE IF IsSome(InferredContentType(request.body))
         THEN InferredContentType(request.body)
         ELSE request.config.content_type

\* Step 5: the jar as an outgoing Cookie header, none for an empty jar.
CookieHeader(jar) ==
    IF jar = {} THEN None ELSE Some({<<c.name, c.value>> : c \in jar})

\* What the service reads back from the Cookie header.
ParseCookieHeader(header) ==
    IF IsSome(header) THEN {Cookie(p[1], p[2]) : p \in Unwrap(header)} ELSE {}

\* Mutant: a server-level pair is dropped when the request has a pair of the
\* same key.
Outgoing_QueryKeysOnce(request, st) ==
    LET NotInRequest(p) ==
            \A i \in DOMAIN request.query_params : request.query_params[i].key # p.key
    IN  [url |-> request.config.full_request_url,
         method |-> request.config.request_format.method,
         query_params |-> SelectSeq(st.query_params, NotInRequest) \o request.query_params,
         headers |-> st.headers \o request.headers,
         content_type |-> ResolveContentType(request),
         cookie |-> CookieHeader(st.cookies),
         body |-> request.body]

\* Steps 1 to 5: the request as it is put on the transport.
Outgoing(request, st) ==
    [url |-> request.config.full_request_url,
     method |-> request.config.request_format.method,
     query_params |-> st.query_params \o request.query_params,
     headers |-> st.headers \o request.headers,
     content_type |-> ResolveContentType(request),
     cookie |-> CookieHeader(st.cookies),
     body |-> request.body]

\* Mutant: the server's setting wins over the request's.
IsSavingCookies_ServerWins(request) == request.config.is_saving_cookies

IsSavingCookies(request) ==
    UnwrapOr(request.is_saving_cookies, request.config.is_saving_cookies)

\* Mutant: the server's expectation wins over the request's.
ExpectedState_ServerWins(request) == request.config.expected_state

ExpectedState(request) ==
    UnwrapOr(request.expected_state, request.config.expected_state)

IsSuccess(status) == 200 <= status /\ status <= 299

\* Step 8: does the response meet the expectation?
MeetsExpectation(expected, status) ==
    IF expected = "Success" THEN IsSuccess(status)
    ELSE IF expected = "Failure" THEN ~IsSuccess(status)
    ELSE TRUE

\* The await starts: steps 1 to 6, up to the suspension in the transport.
\* The shared state is read under its lock, which is released before the
\* send; the mock transport is locked for the send.
await_send(r) ==
    /\ Building(r)
    /\ ~state[requests[r].server].locked
    /\ transport[requests[r].server].guard = None
    /\ requests' = [requests EXCEPT
           ![r].phase = "InFlight",
           ![r].sent = Some(Outgoing(requests[r], state[requests[r].server])),
           ![r].seen = Some(log[requests[r].server]),
           ![r].sends = @ + 1]
    /\ transport' = [transport EXCEPT
           ![requests[r].server].guard =
               IF transport[requests[r].server].kind = "mock" THEN Some(r) ELSE @]
    /\ UNCHANGED <<server, state, log>>

\* The transport returns: steps 7 to 9.  The request that was sent is
\* consumed; the response keeps the status and what the service set.
await_response(r, status, set_cookies) ==
    /\ requests[r].phase = "InFlight"
    /\ LET s == requests[r].server
           saving == IsSavingCookies(requests[r]) /\ set_cookies # <<>>
       IN  /\ saving => ~state[s].locked
           /\ state' = IF saving
                       THEN [state EXCEPT ![s].cookies = JarAddSeq(@, set_cookies)]
                       ELSE state
           /\ log' = IF saving
                     THEN [log EXCEPT ![s] = LogAppend(@, <<"save", set_cookies>>)]
                     ELSE log
    /\ requests' = [requests EXCEPT
           ![r].phase = IF MeetsExpectation(ExpectedState(requests[r]), status)
                        THEN "Dispatched" ELSE "Aborted",
           ![r].sent = None,
           ![r].seen = None,
           ![r].response = Some([status |-> status,
                                 set_cookies |-> set_cookies,
                                 request_url |-> Unwrap(requests[r].sent).url])]
    /\ LET s == requests[r].server
       IN  transport' = [transport EXCEPT
                           ![s] = Released([@ EXCEPT !.guard = None], @.handle,
                                           Holders(s, requests'))]
    /\ UNCHANGED server

\* Mutant: after a failure the request is put back to be sent again.
await_error_Retries(r) ==
    /\ requests[r].phase = "InFlight"
    /\ requests' = [requests EXCEPT
           ![r].phase = "Building",
           ![r].sent = None,
           ![r].seen = None,
           ![r].sends = 0]
    /\ LET s == requests[r].server
       IN  transport' = [transport EXCEPT ![s].guard = None]
    /\ UNCHANGED <<server, state, log>>

\* The transport fails (connection refused, service torn down): the error
\* goes to the call site, which stops there.  Nothing is written back and
\* there is no response.
await_error(r) ==
    /\ requests[r].phase = "InFlight"
    /\ requests' = [requests EXCEPT
           ![r].phase = "Failed",
           ![r].sent = None,
           ![r].seen = None]
    /\ LET s == requests[r].server
       IN  transport' = [transport EXCEPT
                           ![s] = Released([@ EXCEPT !.guard = None], @.handle,
                                           Holders(s, requests'))]
    /\ UNCHANGED <<server, state, log>>

-----------------------------------------------------------------------------
(* Specifications *)

\* Both servers are constructed; a and b are the configurations to draw from.
\* The history of cookie events is kept in the specifications that read it.
InitWith(a, b, history) ==
    /\ \E ca \in a, cb \in b :
          /\ server = [s \in Servers |-> new_with_config(IF s = "A" THEN ca ELSE cb)]
          /\ transport = [s \in Servers |-> TransportOf(IF s = "A" THEN ca ELSE cb)]
    /\ state = [s \in Servers |-> ServerSharedState_new]
    /\ requests = [r \in Slots |-> FreeSlot]
    /\ log = [s \in Servers |-> [LogNew EXCEPT !.complete = history]]

CookieConfigs ==
    {[TestServerConfig_default EXCEPT !.save_cookies = b] : b \in BOOLEAN}

CookiesToAdd ==
    {Cookie("first-cookie", "my-custom-cookie"),
     Cookie("first-cookie", "other-cookie"),
     Cookie("second-cookie", "other-cookie")}

JarsToAdd ==
    {{Cookie("first-cookie", "my-custom-cookie"), Cookie("second-cookie", "other-cookie")}}

\* The Set-Cookie headers a response may carry: none, one, or two of one name.
SetCookieLists ==
    {<<>>,
     <<Cookie("second-cookie", "my-custom-cookie")>>,
     <<Cookie("first-cookie", "other-cookie"), Cookie("first-cookie", "my-custom-cookie")>>}

\* Cookies: a server that saves cookies or not; cookies are added one by one
\* and as a jar, cleared, and set by responses.
Init == InitWith(CookieConfigs, {TestServerConfig_default}, TRUE)

Next ==
    \/ \E c \in CookiesToAdd : add_cookie("A", c)
    \/ \E j \in JarsToAdd : add_cookies("A", j)
    \/ clear_cookies("A")
    \/ \E r \in Slots : method("A", r, "GET", PingPath)
    \/ \E r \in Slots : await_send(r)
    \/ \E r \in Slots,
          set_cookies \in {<<>>, <<Cookie("second-cookie", "my-custom-cookie")>>} :
          await_response(r, 200, set_cookies)
    \/ \E r \in Slots : drop(r)

Spec == Init /\ [][Next]_vars

\* Saving cookies: the server's flag is switched on and off, requests
\* override it, responses set cookies.
SaveNext ==
    \/ add_cookie("A", Cookie("first-cookie", "my-custom-cookie"))
    \/ do_save_cookies("A")
    \/ do_not_save_cookies("A")
    \/ \E r \in Slots : method("A", r, "PUT", PingPath)
    \/ \E r \in Slots : TestRequest_do_save_cookies(r)
    \/ \E r \in Slots : TestRequest_do_not_save_cookies(r)
    \/ \E r \in Slots : await_send(r)
    \/ \E r \in Slots, set_cookies \in SetCookieLists : await_response(r, 200, set_cookies)
    \/ \E r \in Slots : drop(r)

SaveSpec == Init /\ [][SaveNext]_vars

\* Content types: the server has no default or one of two, the request sets
\* any body and possibly an explicit content type, in any order.
ContentTypeConfigs ==
    {[TestServerConfig_default EXCEPT !.default_content_type = d] :
        d \in {None, Some(TEXT_CONTENT_TYPE), Some(XML_CONTENT_TYPE)}}

ContentTypeInit == InitWith(ContentTypeConfigs, {TestServerConfig_default}, FALSE)

ContentTypeNext ==
    \/ \E r \in Slots : method("A", r, "GET", PingPath)
    \/ \E r \in Slots : TestRequest_bytes(r)
    \/ \E r \in Slots : TestRequest_text(r)
    \/ \E r \in Slots : TestRequest_form(r)
    \/ \E r \in Slots : TestRequest_json(r)
    \/ \E r \in Slots, c \in {JSON_CONTENT_TYPE, XML_CONTENT_TYPE} :
          TestRequest_content_type(r, c)
    \/ \E r \in Slots : await_send(r)
    \/ \E r \in Slots : await_response(r, 200, <<>>)
    \/ \E r \in Slots : drop(r)

ContentTypeSpec == ContentTypeInit /\ [][ContentTypeNext]_vars

\* Overrides: every kind of request-level override, on a server whose
\* settings are all off or all on.
OverrideConfigs ==
    {TestServerConfig_default,
     [TestServerConfig_default EXCEPT
        !.save_cookies = TRUE,
        !.expect_success_by_default = TRUE,
        !.default_content_type = Some(TEXT_CONTENT_TYPE)]}

OverrideInit == InitWith(OverrideConfigs, {TestServerConfig_default}, FALSE)

OverrideNext ==
    \/ \E r \in Slots : method("A", r, "GET", PingPath)
    \/ \E r \in Slots : TestRequest_do_save_cookies(r)
    \/ \E r \in Slots : TestRequest_do_not_save_cookies(r)
    \/ \E r \in Slots : TestRequest_expect_success(r)
    \/ \E r \in Slots : TestRequest_expect_failure(r)
    \/ \E r \in Slots : TestRequest_content_type(r, JSON_CONTENT_TYPE)
    \/ \E r \in Slots :
          requests[r].headers = <<>>
          /\ TestRequest_add_header(r, TEST_HEADER.name, TEST_HEADER.value)
    \/ \E r \in Slots :
          requests[r].query_params = <<>>
          /\ TestRequest_add_query_param(r, OTHER_PARAM.key, OTHER_PARAM.value)
    \/ \E r \in Slots : await_send(r)
    \/ \E r \in Slots, status \in {200, 404} : await_response(r, status, <<>>)
    \/ \E r \in Slots : drop(r)

OverrideSpec == OverrideInit /\ [][OverrideNext]_vars

\* Two servers: each has cookies, a header and a query parameter added, and
\* requests of its own whose responses set a cookie.
SavingConfig == [TestServerConfig_default EXCEPT !.save_cookies = TRUE]

TwoServersInit == InitWith({SavingConfig}, {SavingConfig, TestServerConfig_default}, FALSE)

TwoServersNext ==
    \/ \E s \in Servers : add_cookie(s, Cookie("first-cookie", "my-custom-cookie"))
    \/ \E s \in Servers :
          state[s].headers = <<>> /\ add_header(s, TEST_HEADER.name, TEST_HEADER.value)
    \/ \E s \in Servers :
          state[s].query_params = <<>>
          /\ add_query_param(s, MESSAGE_PARAM.key, MESSAGE_PARAM.value)
    \/ \E s \in Servers, r \in Slots : method(s, r, "GET", PingPath)
    \/ \E r \in Slots : await_send(r)
    \/ \E r \in Slots, set_cookies \in {<<>>, <<Cookie("second-cookie", "other-cookie")>>} :
          await_response(r, 200, set_cookies)
    \/ \E r \in Slots : drop(r)

TwoServersSpec == TwoServersInit /\ [][TwoServersNext]_vars

\* Query parameters: pairs are added to the server one by one and from
\* sources, and cleared; a request adds a pair of its own.
QuerySources ==
    {[kind |-> "pairs", pairs |-> <<OTHER_PARAM>>],
     [kind |-> "object", fields |-> <<MESSAGE_PARAM, OTHER_PARAM>>]}

QueryInit == InitWith({TestServerConfig_default}, {TestServerConfig_default}, TRUE)

QueryNext ==
    \/ add_query_param("A", MESSAGE_PARAM.key, MESSAGE_PARAM.value)
    \/ \E source \in QuerySources : add_query_params("A", source)
    \/ clear_query_params("A")
    \/ \E r \in Slots : method("A", r, "GET", PingPath)
    \/ \E r \in Slots, p \in {MESSAGE_PARAM, OTHER_PARAM} :
          requests[r].query_params = <<>>
          /\ TestRequest_add_query_param(r, p.key, p.value)
    \/ \E r \in Slots : await_send(r)
    \/ \E r \in Slots : await_response(r, 200, <<>>)
    \/ \E r \in Slots : drop(r)

QuerySpec == QueryInit /\ [][QueryNext]_vars

\* Headers: headers are added to the server and cleared; a request adds a
\* header of its own.
HeaderInit == InitWith({TestServerConfig_default}, {TestServerConfig_default}, TRUE)

HeaderNext ==
    \/ \E h \in {TEST_HEADER, OTHER_HEADER} : add_header("A", h.name, h.value)
    \/ clear_headers("A")
    \/ \E r \in Slots : method("A", r, "GET", PingPath)
    \/ \E r \in Slots, h \in {TEST_HEADER, OTHER_HEADER} :
          requests[r].headers = <<>>
          /\ TestRequest_add_header(r, h.name, h.value)
    \/ \E r \in Slots : await_send(r)
    \/ \E r \in Slots : await_response(r, 200, <<>>)
    \/ \E r \in Slots : drop(r)

HeaderSpec == HeaderInit /\ [][HeaderNext]_vars

\* Expectations: the server is constructed expecting nothing or success, is
\* told to expect success or failure, requests override the expectation, and
\* responses come back with statuses in and around the 2xx range.  The
\* history of a server starts with its construction.
ExpectConfigs ==
    {[TestServerConfig_default EXCEPT !.expect_success_by_default = b] : b \in BOOLEAN}

ExpectStatuses == {200, 202, 299, 300, 404}

ExpectInit ==
    /\ \E c \in ExpectConfigs :
          LET ConfigOf(s) == IF s = "A" THEN c ELSE TestServerConfig_default
          IN  /\ server = [s \in Servers |-> new_with_config(ConfigOf(s))]
              /\ transport = [s \in Servers |-> TransportOf(ConfigOf(s))]
              /\ log = [s \in Servers |->
                          [LogNew EXCEPT !.events = << <<"new_with_config", ConfigOf(s)>> >>]]
    /\ state = [s \in Servers |-> ServerSharedState_new]
    /\ requests = [r \in Slots |-> FreeSlot]

ExpectNext ==
    \/ expect_success("A")
    \/ expect_failure("A")
    \/ \E r \in Slots : method("A", r, "GET", PingPath)
    \/ \E r \in Slots : TestRequest_expect_success(r)
    \/ \E r \in Slots : TestRequest_expect_failure(r)
    \/ \E r \in Slots : TestRequest_expect_none(r)
    \/ \E r \in Slots : await_send(r)
    \/ \E r \in Slots, status \in ExpectStatuses : await_response(r, status, <<>>)
    \/ \E r \in Slots : drop(r)

ExpectSpec == ExpectInit /\ [][ExpectNext]_vars

\* URLs: a mock or a bound server, restricted to relative paths or not;
\* requests are made with relative paths and with absolute URLs.
UrlConfigs ==
    {[TestServerConfig_default EXCEPT
        !.transport = tr, !.restrict_requests_with_http_schema = b] :
        tr \in {"Default", "HttpIpPort"}, b \in BOOLEAN}

UrlPaths == {PingPath, BarePath, AbsolutePath, OriginPath, ElsewherePath}

UrlInit == InitWith(UrlConfigs, {TestServerConfig_default}, FALSE)

\* The service of the tests: GET "/ping" is routed, nothing else is.
RouteStatus(m, to) ==
    IF to.path # PingPath THEN 404
    ELSE IF m = "GET" THEN 200 ELSE 405

UrlNext ==
    \/ \E r \in Slots, m \in Methods, path \in UrlPaths : method("A", r, m, path)
    \/ \E r \in Slots : await_send(r)
    \/ \E r \in Slots :
          /\ requests[r].phase = "InFlight"
          /\ await_response(r, RouteStatus(Unwrap(requests[r].sent).method,
                                           Unwrap(requests[r].sent).url), <<>>)
    \/ \E r \in Slots : drop(r)

UrlSpec == UrlInit /\ [][UrlNext]_vars

\* Life of a server: it is constructed with any transport, the socket being
\* bound or not; requests are made while the TestServer value is there, and
\* the value and the requests go out of scope in any order.  The history of
\* a server is its construction.
LifeConfigs ==
    {[TestServerConfig_default EXCEPT !.transport = tr] : tr \in TransportKinds}

LifeInit ==
    /\ \E c \in LifeConfigs, bind \in BindOutcomes :
          LET ConfigOf(s) == IF s = "A" THEN c ELSE TestServerConfig_default
              BindOf(s) == IF s = "A" THEN bind ELSE "bound"
          IN  /\ server = [s \in Servers |-> new_with_config(ConfigOf(s))]
              /\ transport = [s \in Servers |-> TransportResult(ConfigOf(s), BindOf(s))]
              /\ log = [s \in Servers |->
                          [LogNew EXCEPT !.events =
                              << <<"new_with_config", ConfigOf(s), BindOf(s)>> >>]]
    /\ state = [s \in Servers |-> ServerSharedState_new]
    /\ requests = [r \in Slots |-> FreeSlot]

LifeNext ==
    \/ transport["A"].handle /\ do_save_cookies("A")
    \/ \E s \in Servers, r \in Slots : method(s, r, "GET", PingPath)
    \/ \E r \in Slots : await_send(r)
    \/ \E r \in Slots : await_response(r, 200, <<>>)
    \/ \E r \in Slots : await_error(r)
    \/ \E r \in Slots : drop(r)
    \/ drop_server("A")

LifeSpec == LifeInit /\ [][LifeNext]_vars

\* Concurrency: the tasks of a test make requests on one server, mock or
\* bound, and await them in any interleaving.
Tasks == 1..MaxTasks

ConcurrentConfigs ==
    {[TestServerConfig_default EXCEPT !.transport = tr] : tr \in TransportKinds}

ConcurrentInit ==
    /\ \E c \in ConcurrentConfigs :
          LET ConfigOf(s) == IF s = "A" THEN c ELSE TestServerConfig_default
          IN  /\ server = [s \in Servers |-> new_with_config(ConfigOf(s))]
              /\ transport = [s \in Servers |-> TransportResult(ConfigOf(s), "bound")]
              /\ log = [s \in Servers |->
                          [LogNew EXCEPT !.events =
                              << <<"new_with_config", ConfigOf(s), "bound">> >>]]
    /\ state = [s \in Servers |-> ServerSharedState_new]
    /\ requests = [r \in Tasks |-> FreeSlot]

ConcurrentNext ==
    \/ \E r \in Tasks : method("A", r, "GET", PingPath)
    \/ \E r \in Tasks : await_send(r)
    \/ \E r \in Tasks, status \in {200, 404} : await_response(r, status, <<>>)
    \/ \E r \in Tasks : await_error(r)
    \/ \E r \in Tasks : drop(r)

ConcurrentSpec == ConcurrentInit /\ [][ConcurrentNext]_vars

\* The shared state under concurrency: the test changes the cookies and
\* headers of the server while its tasks have requests in flight, on a
\* server that saves cookies or not.
LockInit ==
    /\ \E c \in CookieConfigs :
          /\ server = [s \in Servers |->
                         new_with_config(IF s = "A" THEN c ELSE TestServerConfig_default)]
          /\ transport = [s \in Servers |->
                            TransportOf([TestServerConfig_default EXCEPT
                                            !.transport = "HttpRandomPort"])]
    /\ state = [s \in Servers |-> ServerSharedState_new]
    /\ requests = [r \in Tasks |-> FreeSlot]
    /\ log = [s \in Servers |-> [LogNew EXCEPT !.complete = FALSE]]

LockNext ==
    \/ add_cookie("A", Cookie("first-cookie", "my-custom-cookie"))
    \/ clear_cookies("A")
    \/ add_header("A", TEST_HEADER.name, TEST_HEADER.value)
    \/ clear_headers("A")
    \/ \E r \in Tasks : method("A", r, "GET", PingPath)
    \/ \E r \in Tasks : await_send(r)
    \/ \E r \in Tasks,
          set_cookies \in {<<>>, <<Cookie("second-cookie", "my-custom-cookie")>>} :
          await_response(r, 200, set_cookies)
    \/ \E r \in Tasks : drop(r)

LockSpec == LockInit /\ [][LockNext]_vars

\* Failing sends: a server that saves cookies or not, with cookies in its
\* jar, whose requests are answered with cookies or fail in the transport.
FailInit == InitWith(CookieConfigs, {TestServerConfig_default}, FALSE)

FailNext ==
    \/ \E c \in CookiesToAdd : add_cookie("A", c)
    \/ \E r \in Slots : method("A", r, "GET", PingPath)
    \/ \E r \in Slots : TestRequest_do_save_cookies(r)
    \/ \E r \in Slots : await_send(r)
    \/ \E r \in Slots :
          await_response(r, 200, <<Cookie("second-cookie", "my-custom-cookie")>>)
    \/ \E r \in Slots : await_error(r)
    \/ \E r \in Slots : drop(r)

FailSpec == FailInit /\ [][FailNext]_vars

\* Snapshots: the settings of the server are changed between the creation
\* of a request and its await.
SnapshotConfigs ==
    {[TestServerConfig_default EXCEPT
        !.transport = tr, !.save_cookies = b, !.default_content_type = d] :
        tr \in {"Default", "HttpIpPort"}, b \in BOOLEAN,
        d \in {None, Some(TEXT_CONTENT_TYPE)}}

SnapshotInit == InitWith(SnapshotConfigs, {TestServerConfig_default}, FALSE)

SnapshotNext ==
    \/ do_save_cookies("A")
    \/ do_not_save_cookies("A")
    \/ expect_success("A")
    \/ expect_failure("A")
    \/ \E r \in Slots : method("A", r, "GET", PingPath)
    \/ \E r \in Slots : await_send(r)
    \/ \E r \in Slots, status \in {200, 404} :
          await_response(r, status, <<Cookie("second-cookie", "my-custom-cookie")>>)
    \/ \E r \in Slots : drop(r)

SnapshotSpec == SnapshotInit /\ [][SnapshotNext]_vars

\* Merging: the cookies, headers and query parameters of the server are
\* changed while a request waits for its await.  A GET request is created
\* on a server that has nothing yet, a POST request on one that has a
\* cookie, a header and a query parameter.
MergeInit == InitWith({TestServerConfig_default}, {TestServerConfig_default}, FALSE)

Unconfigured(st) == st.cookies = {} /\ st.headers = <<>> /\ st.query_params = <<>>

Configured(st) == st.cookies # {} /\ st.headers # <<>> /\ st.query_params # <<>>

MergeNext ==
    \/ add_cookie("A", Cookie("first-cookie", "my-custom-cookie"))
    \/ clear_cookies("A")
    \/ add_header("A", TEST_HEADER.name, TEST_HEADER.value)
    \/ clear_headers("A")
    \/ add_query_param("A", MESSAGE_PARAM.key, MESSAGE_PARAM.value)
    \/ clear_query_params("A")
    \/ \E r \in Slots : Unconfigured(state["A"]) /\ method("A", r, "GET", PingPath)
    \/ \E r \in Slots : Configured(state["A"]) /\ method("A", r, "POST", PingPath)
    \/ \E r \in Slots : await_send(r)
    \/ \E r \in Slots : await_response(r, 200, <<>>)
    \/ \E r \in Slots : drop(r)

MergeSpec == MergeInit /\ [][MergeNext]_vars

\* Atomicity: a jar of two cookies is added to the server, and the cookies
\* are cleared, while the tasks of the test create and await requests.
AtomicNext ==
    \/ \E j \in JarsToAdd : add_cookies("A", j)
    \/ clear_cookies("A")
    \/ \E r \in Tasks : method("A", r, "GET", PingPath)
    \/ \E r \in Tasks : await_send(r)
    \/ \E r \in Tasks, status \in {200, 404} : await_response(r, status, <<>>)
    \/ \E r \in Tasks : drop(r)

AtomicSpec == LockInit /\ [][AtomicNext]_vars

\* Write-back: a server that saves cookies; cookies are added by the test
\* and set by responses, under names that are in the jar already and under
\* new ones.
WriteBackLists ==
    {<<Cookie("first-cookie", "other-cookie")>>,
     <<Cookie("second-cookie", "my-custom-cookie")>>,
     <<Cookie("first-cookie", "other-cookie"), Cookie("first-cookie", "my-custom-cookie")>>}

WriteBackInit == InitWith({SavingConfig}, {TestServerConfig_default}, TRUE)

WriteBackNext ==
    \/ \E c \in CookiesToAdd : add_cookie("A", c)
    \/ \E r \in Slots : method("A", r, "GET", PingPath)
    \/ \E r \in Slots : await_send(r)
    \/ \E r \in Slots, set_cookies \in WriteBackLists : await_response(r, 200, set_cookies)
    \/ \E r \in Slots : drop(r)

WriteBackSpec == WriteBackInit /\ [][WriteBackNext]_vars

\* Joined requests: each task of the test makes one request, and the
\* requests are awaited together: every one of them is sent before the
\* first response is taken.  The responses set cookies of different names.
JoinLists ==
    {<<Cookie("first-cookie", "my-custom-cookie")>>,
     <<Cookie("second-cookie", "my-custom-cookie")>>}

AllSent == \A t \in Tasks : requests[t].phase \in {"InFlight", "Dispatched", "Aborted"}

JoinNext ==
    \/ \E r \in Tasks : method("A", r, "GET", PingPath)
    \/ \E r \in Tasks : TestRequest_do_save_cookies(r)
    \/ \E r \in Tasks : TestRequest_do_not_save_cookies(r)
    \/ \E r \in Tasks : await_send(r)
    \/ \E r \in Tasks, set_cookies \in JoinLists :
          AllSent /\ await_response(r, 200, set_cookies)

JoinSpec == LockInit /\ [][JoinNext]_vars

\* Frames: every operation that changes the shared state is called on a
\* server with any settings and transport, in any order.
FrameConfigs ==
    {[TestServerConfig_default EXCEPT
        !.transport = tr, !.save_cookies = b, !.expect_success_by_default = b,
        !.default_content_type = IF b THEN Some(TEXT_CONTENT_TYPE) ELSE None] :
        tr \in {"Default", "HttpRandomPort"}, b \in BOOLEAN}

FrameInit == InitWith(FrameConfigs, {TestServerConfig_default}, TRUE)

FrameNext ==
    \/ add_cookie("A", Cookie("first-cookie", "my-custom-cookie"))
    \/ \E j \in JarsToAdd : add_cookies("A", j)
    \/ clear_cookies("A")
    \/ add_header("A", TEST_HEADER.name, TEST_HEADER.value)
    \/ clear_headers("A")
    \/ add_query_param("A", MESSAGE_PARAM.key, MESSAGE_PARAM.value)
    \/ add_query_params("A", [kind |-> "pairs", pairs |-> <<OTHER_PARAM>>])
    \/ clear_query_params("A")

FrameSpec == FrameInit /\ [][FrameNext]_vars

-----------------------------------------------------------------------------
(* Reading the history of cookie events *)

\* The last cookie of each name in a list.
LastByName(cookies) ==
    {cookies[i] : i \in {k \in DOMAIN cookies :
        \A j \in DOMAIN cookies : j > k => cookies[j].name # cookies[k].name}}

\* The cookies one event puts in the jar.
EventCookies(event) ==
    IF event[1] = "add_cookie" THEN {event[2]}
    ELSE IF event[1] = "add_cookies" THEN event[2]
    ELSE IF event[1] = "save" THEN LastByName(event[2])
    ELSE {}

IsClear(event) == event[1] = "clear_cookies"

\* The cookies a history leaves: put by an event and neither replaced by a
\* later cookie of the same name nor removed by a later clear.
Remaining(events) ==
    {c \in UNION {EventCookies(events[i]) : i \in DOMAIN events} :
        \E i \in DOMAIN events :
            /\ c \in EventCookies(events[i])
            /\ \A j \in DOMAIN events : j > i =>
                  /\ ~IsClear(events[j])
                  /\ c.name \notin JarNames(EventCookies(events[j]))}

OnlyAdds(events) ==
    \A i \in DOMAIN events : events[i][1] \in {"add_cookie", "add_cookies"}

AddedNames(events) == UNION {JarNames(EventCookies(events[i])) : i \in DOMAIN events}

InFlight(r) == requests[r].phase = "InFlight"

SentCookies(r) == ParseCookieHeader(Unwrap(requests[r].sent).cookie)

SeenEvents(r) == Unwrap(requests[r].seen).events

SeenComplete(r) == Unwrap(requests[r].seen).complete

-----------------------------------------------------------------------------
(* Claims *)

\* C1: after add_cookie / add_cookies calls only (no clear, no write-back),
\* the jar holds, and a request awaited then sends, exactly the distinct names
\* that were added, each with the value of its last add; so re-adding a name
\* replaces the value and the jar has one entry per distinct name.
C1_AddedCookiesAreSent ==
    /\ \A s \in Servers :
          (log[s].complete /\ OnlyAdds(log[s].events)) =>
              /\ state[s].cookies = Remaining(log[s].events)
              /\ JarNames(state[s].cookies) = AddedNames(log[s].events)
              /\ Cardinality(state[s].cookies) = Cardinality(AddedNames(log[s].events))
    /\ \A r \in Slots :
          (InFlight(r) /\ SeenComplete(r) /\ OnlyAdds(SeenEvents(r))) =>
              /\ SentCookies(r) = Remaining(SeenEvents(r))
              /\ JarNames(SentCookies(r)) = AddedNames(SeenEvents(r))

\* A request in flight after a name was added twice with different values:
\* it carries the second value only.
C1_Witness ==
    \E r \in Slots :
        /\ InFlight(r) /\ SeenComplete(r)
        /\ Len(SeenEvents(r)) = 2
        /\ SeenEvents(r)[1] = <<"add_cookie", Cookie("first-cookie", "my-custom-cookie")>>
        /\ SeenEvents(r)[2] = <<"add_cookie", Cookie("first-cookie", "other-cookie")>>
        /\ SentCookies(r) = {Cookie("first-cookie", "other-cookie")}

Last(seq) == seq[Len(seq)]

\* The events after the last clear_cookies of a history.
SinceLastClear(events) ==
    LET clears == {i \in DOMAIN events : IsClear(events[i])}
        k == IF clears = {} THEN 0
             ELSE CHOOSE i \in clears : \A j \in clears : j <= i
    IN  SubSeq(events, k + 1, Len(events))

HasClear(events) == \E i \in DOMAIN events : IsClear(events[i])

\* C2: after clear_cookies the jar is empty, and a request awaited after it
\* sends no cookie from before the clear: it sends exactly what was added or
\* saved since, nothing (no Cookie header) when the clear came last.
C2_NoCookieFromBeforeClear ==
    /\ \A s \in Servers :
          (log[s].complete /\ log[s].events # <<>> /\ IsClear(Last(log[s].events))) =>
              state[s].cookies = {}
    /\ \A r \in Slots :
          (InFlight(r) /\ SeenComplete(r) /\ HasClear(SeenEvents(r))) =>
              /\ SentCookies(r) = Remaining(SinceLastClear(SeenEvents(r)))
              /\ IsClear(Last(SeenEvents(r))) => Unwrap(requests[r].sent).cookie = None

\* A request in flight after two cookies were added and then cleared.
C2_Witness ==
    \E r \in Slots :
        /\ InFlight(r) /\ SeenComplete(r)
        /\ Len(SeenEvents(r)) = 2
        /\ SeenEvents(r)[1][1] = "add_cookies"
        /\ IsClear(SeenEvents(r)[2])
        /\ Unwrap(requests[r].sent).cookie = None

Created(r) == requests[r].phase = "Free" /\ requests'[r].phase = "Building"

Completed(r) == requests[r].phase = "InFlight" /\ requests'[r].phase \in {"Dispatched", "Aborted"}

\* The write-back of a response's cookies: each name's last cookie is in the
\* jar afterwards, the cookies of other names are as they were.
WrittenBack(s, set_cookies) ==
    /\ LastByName(set_cookies) \subseteq state'[s].cookies
    /\ \A c \in state[s].cookies :
          c.name \notin JarNames(LastByName(set_cookies)) => c \in state'[s].cookies
    /\ JarNames(state'[s].cookies) =
          JarNames(state[s].cookies) \cup JarNames(LastByName(set_cookies))

\* C3: a request takes the server's save_cookies flag when it is created; if
\* the flag is on (and the request does not override it), awaiting the request
\* writes the response's cookies into the jar and a request sent right after
\* carries them; if it is off, awaiting leaves the shared state unchanged.
C3_ServerLevelSaveCookies ==
    /\ [](\A r \in Slots :
            (InFlight(r) /\ SeenComplete(r) /\ SeenEvents(r) # <<>>
                /\ Last(SeenEvents(r))[1] = "save") =>
                LastByName(Last(SeenEvents(r))[2]) \subseteq SentCookies(r))
    /\ [][\A r \in Slots :
            /\ Created(r) =>
                  requests'[r].config.is_saving_cookies
                      = server[requests'[r].server].save_cookies
            /\ (Completed(r) /\ requests[r].is_saving_cookies = None) =>
                  IF requests[r].config.is_saving_cookies
                  THEN WrittenBack(requests[r].server,
                                   Unwrap(requests'[r].response).set_cookies)
                  ELSE state' = state]_vars

\* A request of a saving server, in flight right after a write-back, carrying
\* the cookie that was saved.
C3_Witness ==
    \E r \in Slots :
        /\ InFlight(r) /\ SeenComplete(r)
        /\ server[requests[r].server].save_cookies
        /\ requests[r].config.is_saving_cookies
        /\ requests[r].is_saving_cookies = None
        /\ SeenEvents(r) = << <<"save", <<Cookie("second-cookie", "my-custom-cookie")>> >> >>
        /\ SentCookies(r) = {Cookie("second-cookie", "my-custom-cookie")}

\* C4: a request's own do_save_cookies / do_not_save_cookies decides the
\* write-back whatever the server's setting: marked to save, the response's
\* cookies are in the jar after the await; marked not to save, the shared
\* state is unchanged.
C4_RequestSaveOverrideWins ==
    [][\A r \in Slots :
        (Completed(r) /\ IsSome(requests[r].is_saving_cookies)) =>
            IF Unwrap(requests[r].is_saving_cookies)
            THEN WrittenBack(requests[r].server,
                             Unwrap(requests'[r].response).set_cookies)
            ELSE state' = state]_vars

\* A server that does not save, a request marked do_save_cookies, and its
\* response's cookie in the jar.
C4_Witness ==
    \E r \in Slots :
        /\ requests[r].phase = "Dispatched"
        /\ ~requests[r].config.is_saving_cookies
        /\ requests[r].is_saving_cookies = Some(TRUE)
        /\ Unwrap(requests[r].response).set_cookies
              = <<Cookie("second-cookie", "my-custom-cookie")>>
        /\ state[requests[r].server].cookies = {Cookie("second-cookie", "my-custom-cookie")}

BuilderStep(r) ==
    /\ requests[r].phase = "Building"
    /\ requests'[r].phase = "Building"
    /\ requests'[r] # requests[r]

\* C5: a builder call changes its own request only: the server's fields, the
\* shared state, the transport, the other requests and the request's own
\* snapshot of the server's settings stay as they are; and a request that is
\* created starts from the server's settings, with no override of its own.
C5_OverridesAreLocal ==
    [][\A r \in Slots :
        /\ BuilderStep(r) =>
              /\ server' = server /\ state' = state /\ transport' = transport
              /\ requests'[r].config = requests[r].config
              /\ requests'[r].server = requests[r].server
              /\ \A q \in Slots \ {r} : requests'[q] = requests[q]
        /\ Created(r) =>
              LET s == requests'[r].server
                  q == requests'[r]
              IN  /\ q.config.is_saving_cookies = server[s].save_cookies
                  /\ q.config.expected_state = server[s].expected_state
                  /\ q.config.content_type = server[s].default_content_type
                  /\ q.is_saving_cookies = None /\ q.expected_state = None
                  /\ q.content_type = None
                  /\ q.headers = <<>> /\ q.query_params = <<>>
                  /\ server' = server /\ state' = state]_vars

\* A request with every kind of override, each against the server's setting,
\* and the server's settings and shared state as they were constructed.
C5_Witness ==
    \E r \in Slots :
        LET s == requests[r].server
        IN  /\ requests[r].phase = "Building"
            /\ server[s].save_cookies /\ requests[r].is_saving_cookies = Some(FALSE)
            /\ server[s].expected_state = "Success"
            /\ requests[r].expected_state = Some("Failure")
            /\ server[s].default_content_type = Some(TEXT_CONTENT_TYPE)
            /\ requests[r].content_type = Some(JSON_CONTENT_TYPE)
            /\ requests[r].headers = <<TEST_HEADER>>
            /\ requests[r].query_params = <<OTHER_PARAM>>
            /\ state[s] = ServerSharedState_new

OwnRequestChanged(s) ==
    \E r \in Slots :
        /\ requests'[r] # requests[r]
        /\ \/ requests[r].phase # "Free" /\ requests[r].server = s
           \/ requests'[r].phase # "Free" /\ requests'[r].server = s

\* A step concerns server s: its fields, transport, shared state, history or
\* one of its requests changes.
Concerns(s) ==
    \/ server'[s] # server[s]
    \/ transport'[s] # transport[s]
    \/ state'[s] # state[s]
    \/ log'[s] # log[s]
    \/ OwnRequestChanged(s)

\* C6: every step concerns one server only, so nothing done on one server
\* (add_cookie, add_header, add_query_param, a request, a write-back) changes
\* the state of another; and what a request sends is taken from the shared
\* state of its own server.
C6_ServersAreIsolated ==
    [][/\ \A a, b \in Servers : (a # b /\ Concerns(a)) => ~Concerns(b)
       /\ \A r \in Slots :
            (requests[r].phase = "Building" /\ requests'[r].phase = "InFlight") =>
                LET s == requests[r].server
                    out == Unwrap(requests'[r].sent)
                IN  /\ ParseCookieHeader(out.cookie) = state[s].cookies
                    /\ out.headers = state[s].headers \o requests[r].headers
                    /\ out.query_params = state[s].query_params \o requests[r].query_params]_vars

\* Server A has a cookie added, a cookie saved, a header and a query
\* parameter; a request of server B is in flight and carries none of them.
C6_Witness ==
    \E r \in Slots :
        /\ InFlight(r) /\ requests[r].server = "B"
        /\ state["A"].cookies = {Cookie("first-cookie", "my-custom-cookie"),
                                 Cookie("second-cookie", "other-cookie")}
        /\ state["A"].headers = <<TEST_HEADER>>
        /\ state["A"].query_params = <<MESSAGE_PARAM>>
        /\ Unwrap(requests[r].sent).cookie = None
        /\ Unwrap(requests[r].sent).headers = <<>>
        /\ Unwrap(requests[r].sent).query_params = <<>>

SentContentType(r) == Unwrap(requests[r].sent).content_type

\* C7: a request with an explicit content_type goes out with exactly that
\* content type, whether or not the server has a default.
C7_ExplicitContentTypeWins ==
    \A r \in Slots :
        (InFlight(r) /\ IsSome(requests[r].content_type)) =>
            SentContentType(r) = requests[r].content_type

\* The server's default is text/plain, the request says application/json.
C7_Witness ==
    \E r \in Slots :
        /\ InFlight(r)
        /\ requests[r].config.content_type = Some(TEXT_CONTENT_TYPE)
        /\ requests[r].content_type = Some(JSON_CONTENT_TYPE)
        /\ SentContentType(r) = Some(JSON_CONTENT_TYPE)

C9_GuessNeverOverridesDefault ==
    \A r \in Slots :
        (InFlight(r) /\ IsSome(requests[r].config.content_type)
            /\ requests[r].content_type = None) =>
            SentContentType(r) = requests[r].config.content_type

\* C10: a request with neither an explicit content type nor a body goes out
\* with the server's default_content_type: none when the server has none.
C10_DefaultContentType ==
    \A r \in Slots :
        (InFlight(r) /\ requests[r].content_type = None /\ requests[r].body = "absent") =>
            /\ SentContentType(r) = server[requests[r].server].default_content_type
            /\ server[requests[r].server].default_content_type = None =>
                  SentContentType(r) = None

\* The server's default is text/plain and a bare request carries it.
C10_Witness ==
    \E r \in Slots :
        /\ InFlight(r) /\ requests[r].content_type = None /\ requests[r].body = "absent"
        /\ server[requests[r].server].default_content_type = Some(TEXT_CONTENT_TYPE)
        /\ SentContentType(r) = Some(TEXT_CONTENT_TYPE)

-----------------------------------------------------------------------------
(* Reading the history of the calls on a server *)

\* The events after the last event of a name: all of them if there is none.
SinceLast(events, name) ==
    LET at == {i \in DOMAIN events : events[i][1] = name}
        k == IF at = {} THEN 0
             ELSE CHOOSE i \in at : \A j \in at : j <= i
    IN  SubSeq(events, k + 1, Len(events))

Occurs(events, name) == \E i \in DOMAIN events : events[i][1] = name

\* How many times x is in a list.
Count(seq, x) == Cardinality({i \in DOMAIN seq : seq[i] = x})

\* The pairs one call adds, in their order.
EventPairs(event) ==
    IF event[1] = "add_query_param" THEN <<event[2]>>
    ELSE IF event[1] = "add_query_params" THEN QuerySourcePairs(event[2])
    ELSE <<>>

RECURSIVE AddedPairs(_)
\* The pairs the calls of a history add, call after call.
AddedPairs(events) ==
    IF events = <<>> THEN <<>>
    ELSE EventPairs(Head(events)) \o AddedPairs(Tail(events))

SentQueryParams(r) == Unwrap(requests[r].sent).query_params

\* C11: add_query_param / add_query_params never replace or deduplicate: the
\* server's query-parameter list is the concatenation, in call order, of the
\* pairs added since the last clear_query_params; so a request awaited then
\* carries a pair as many times as it was added (added twice, carried twice).
C11_QueryParamsAccumulate ==
    /\ \A s \in Servers :
          log[s].complete =>
              state[s].query_params
                  = AddedPairs(SinceLast(log[s].events, "clear_query_params"))
    /\ \A r \in Slots :
          (InFlight(r) /\ SeenComplete(r)) =>
              \A p \in {MESSAGE_PARAM, OTHER_PARAM} :
                  Count(SentQueryParams(r), p)
                      = Count(AddedPairs(SinceLast(SeenEvents(r), "clear_query_params")), p)
                        + Count(requests[r].query_params, p)

\* The same pair was added twice with add_query_param, and a request in
\* flight carries it twice.
C11_Witness ==
    \E r \in Slots :
        /\ InFlight(r) /\ SeenComplete(r)
        /\ SeenEvents(r) = << <<"add_query_param", MESSAGE_PARAM>>,
                              <<"add_query_param", MESSAGE_PARAM>> >>
        /\ requests[r].query_params = <<>>
        /\ SentQueryParams(r) = <<MESSAGE_PARAM, MESSAGE_PARAM>>

\* C12: the query string of a dispatched request is the pairs accumulated on
\* the server followed by the pairs of the request, each group in insertion
\* order, none dropped or deduplicated, also when a key is in both groups.
C12_QueryParamsMerged ==
    \A r \in Slots :
        (InFlight(r) /\ SeenComplete(r)) =>
            SentQueryParams(r)
                = AddedPairs(SinceLast(SeenEvents(r), "clear_query_params"))
                  \o requests[r].query_params

\* The server has "message" and "other" from an object, the request adds
\* "other" again: all three go out, the server's first.
C12_Witness ==
    \E r \in Slots :
        /\ InFlight(r) /\ SeenComplete(r)
        /\ Len(SeenEvents(r)) = 1
        /\ SeenEvents(r)[1][1] = "add_query_params"
        /\ SeenEvents(r)[1][2].kind = "object"
        /\ requests[r].query_params = <<OTHER_PARAM>>
        /\ SentQueryParams(r) = <<MESSAGE_PARAM, OTHER_PARAM, OTHER_PARAM>>

\* C13: after clear_query_params the server's list is empty, and a request
\* awaited after it carries none of the pairs added before the clear: its
\* query string is the pairs added since the clear, then its own.
C13_ClearedQueryParamsNotCarried ==
    /\ \A s \in Servers :
          (log[s].complete /\ log[s].events # <<>>
              /\ Last(log[s].events)[1] = "clear_query_params") =>
              state[s].query_params = <<>>
    /\ \A r \in Slots :
          (InFlight(r) /\ SeenComplete(r)
              /\ Occurs(SeenEvents(r), "clear_query_params")) =>
              LET since == AddedPairs(SinceLast(SeenEvents(r), "clear_query_params"))
                  sent == SentQueryParams(r)
              IN  /\ Len(sent) = Len(since) + Len(requests[r].query_params)
                  /\ SubSeq(sent, 1, Len(since)) = since
                  /\ SubSeq(sent, Len(since) + 1, Len(sent)) = requests[r].query_params

\* "message" was added, the list cleared, "other" added: a request in flight
\* carries "other" only.
C13_Witness ==
    \E r \in Slots :
        /\ InFlight(r) /\ SeenComplete(r)
        /\ Len(SeenEvents(r)) = 3
        /\ SeenEvents(r)[1] = <<"add_query_param", MESSAGE_PARAM>>
        /\ SeenEvents(r)[2] = <<"clear_query_params">>
        /\ SeenEvents(r)[3][1] = "add_query_params"
        /\ requests[r].query_params = <<>>
        /\ SentQueryParams(r) = <<OTHER_PARAM>>

\* The header one call adds.
EventHeaders(event) ==
    IF event[1] = "add_header" THEN <<event[2]>> ELSE <<>>

RECURSIVE AddedHeaders(_)
\* The headers the calls of a history add, call after call.
AddedHeaders(events) ==
    IF events = <<>> THEN <<>>
    ELSE EventHeaders(Head(events)) \o AddedHeaders(Tail(events))

SentHeaders(r) == Unwrap(requests[r].sent).headers

\* C14: add_header appends without deduplicating by name, and a dispatched
\* request carries the server's headers followed by its own, neither list
\* removing entries of the other; so every header added to the server and not
\* cleared is on every request awaited afterwards.
C14_HeadersAccumulateAndMerge ==
    /\ \A s \in Servers :
          log[s].complete =>
              state[s].headers = AddedHeaders(SinceLast(log[s].events, "clear_headers"))
    /\ \A r \in Slots :
          (InFlight(r) /\ SeenComplete(r)) =>
              /\ SentHeaders(r)
                    = AddedHeaders(SinceLast(SeenEvents(r), "clear_headers"))
                      \o requests[r].headers
              /\ \A h \in {TEST_HEADER, OTHER_HEADER} :
                    Count(SentHeaders(r), h)
                        = Count(AddedHeaders(SinceLast(SeenEvents(r), "clear_headers")), h)
                          + Count(requests[r].headers, h)
              /\ ~Occurs(SeenEvents(r), "clear_headers") =>
                    \A i \in DOMAIN SeenEvents(r) :
                        \E j \in DOMAIN SentHeaders(r) :
                            SentHeaders(r)[j] = SeenEvents(r)[i][2]

\* The same header was added to the server twice and once more by the
\* request: it goes out three times.
C14_Witness ==
    \E r \in Slots :
        /\ InFlight(r) /\ SeenComplete(r)
        /\ SeenEvents(r) = << <<"add_header", TEST_HEADER>>, <<"add_header", TEST_HEADER>> >>
        /\ requests[r].headers = <<TEST_HEADER>>
        /\ SentHeaders(r) = <<TEST_HEADER, TEST_HEADER, TEST_HEADER>>

\* C15: after clear_headers the server's list is empty, and a request awaited
\* after it carries none of the headers added to the server before the clear:
\* only those added since, and its own.
C15_ClearedHeadersNotCarried ==
    /\ \A s \in Servers :
          (log[s].complete /\ log[s].events # <<>>
              /\ Last(log[s].events)[1] = "clear_headers") =>
              state[s].headers = <<>>
    /\ \A r \in Slots :
          (InFlight(r) /\ SeenComplete(r) /\ Occurs(SeenEvents(r), "clear_headers")) =>
              LET since == AddedHeaders(SinceLast(SeenEvents(r), "clear_headers"))
                  sent == SentHeaders(r)
              IN  /\ Len(sent) = Len(since) + Len(requests[r].headers)
                  /\ SubSeq(sent, 1, Len(since)) = since
                  /\ SubSeq(sent, Len(since) + 1, Len(sent)) = requests[r].headers
                  /\ (since = <<>> /\ requests[r].headers = <<>>) => sent = <<>>

\* Two headers were added and then cleared: a request in flight has none.
C15_Witness ==
    \E r \in Slots :
        /\ InFlight(r) /\ SeenComplete(r)
        /\ SeenEvents(r) = << <<"add_header", TEST_HEADER>>,
                              <<"add_header", OTHER_HEADER>>,
                              <<"clear_headers">> >>
        /\ requests[r].headers = <<>>
        /\ SentHeaders(r) = <<>>

\* The expectation the calls of a history leave on the server: that of the
\* last expect_success / expect_failure, else that of the configuration.
ServerExpectation(events) ==
    LET e == Last(events)
    IN  IF e[1] = "expect_success" THEN "Success"
        ELSE IF e[1] = "expect_failure" THEN "Failure"
        ELSE IF e[2].expect_success_by_default THEN "Success" ELSE "None"

\* The request r is created on a server whose history is known.
CreatedKnowing(r) ==
    /\ Created(r)
    /\ log[requests'[r].server].complete
    /\ log[requests'[r].server].events # <<>>

\* From its creation to its response a request keeps the settings it took.
KeepsConfig(r) ==
    (requests[r].phase # "Free" /\ requests'[r].phase # "Free") =>
        requests'[r].config = requests[r].config

Aborts(r) == requests'[r].phase = "Aborted"

ResponseStatus(r) == Unwrap(requests'[r].response).status

\* C16: a request created while the server expects success (expect_success(),
\* or expect_success_by_default with no later call) and not overridden
\* aborts when awaited if and only if the status is outside 200..=299.
C16_ServerExpectSuccess ==
    [][\A r \in Slots :
        /\ (CreatedKnowing(r)
               /\ ServerExpectation(log[requests'[r].server].events) = "Success") =>
              /\ requests'[r].config.expected_state = "Success"
              /\ requests'[r].expected_state = None
        /\ KeepsConfig(r)
        /\ (Completed(r) /\ requests[r].expected_state = None
               /\ requests[r].config.expected_state = "Success") =>
              (Aborts(r) <=> ~(200 <= ResponseStatus(r) /\ ResponseStatus(r) <= 299))]_vars

\* expect_success() was called on a default server, and a request without an
\* override got 404: it aborted.
C16_Witness ==
    \E r \in Slots :
        /\ requests[r].phase = "Aborted"
        /\ log[requests[r].server].complete
        /\ log[requests[r].server].events
              = << <<"new_with_config", TestServerConfig_default>>, <<"expect_success">> >>
        /\ requests[r].config.expected_state = "Success"
        /\ requests[r].expected_state = None
        /\ Unwrap(requests[r].response).status = 404

\* C17: a request created while the server expects failure (expect_failure())
\* and not overridden aborts when awaited if and only if the status is inside
\* 200..=299: 202 aborts, 404 passes.
C17_ServerExpectFailure ==
    [][\A r \in Slots :
        /\ (CreatedKnowing(r)
               /\ ServerExpectation(log[requests'[r].server].events) = "Failure") =>
              /\ requests'[r].config.expected_state = "Failure"
              /\ requests'[r].expected_state = None
        /\ KeepsConfig(r)
        /\ (Completed(r) /\ requests[r].expected_state = None
               /\ requests[r].config.expected_state = "Failure") =>
              (Aborts(r) <=> (200 <= ResponseStatus(r) /\ ResponseStatus(r) <= 299))]_vars

\* expect_failure() was called, and a request without an override got 202:
\* it aborted.
C17_Witness ==
    \E r \in Slots :
        /\ requests[r].phase = "Aborted"
        /\ log[requests[r].server].complete
        /\ log[requests[r].server].events
              = << <<"new_with_config", TestServerConfig_default>>, <<"expect_failure">> >>
        /\ requests[r].config.expected_state = "Failure"
        /\ requests[r].expected_state = None
        /\ Unwrap(requests[r].response).status = 202

\* The history of a server is its construction with the default expectation
\* and nothing else.
DefaultAndUntouched(events) ==
    /\ Len(events) = 1
    /\ events[1][1] = "new_with_config"
    /\ ~events[1][2].expect_success_by_default

\* C18: a request created on a server that was constructed with
\* expect_success_by_default false and never told expect_success or
\* expect_failure, and not overridden, never aborts when awaited, whatever the
\* status.
C18_DefaultNeverAborts ==
    [][\A r \in Slots :
        /\ (CreatedKnowing(r) /\ DefaultAndUntouched(log[requests'[r].server].events)) =>
              /\ requests'[r].config.expected_state = "None"
              /\ requests'[r].expected_state = None
        /\ KeepsConfig(r)
        /\ (Completed(r) /\ requests[r].expected_state = None
               /\ requests[r].config.expected_state = "None") =>
              ~Aborts(r)]_vars

\* A default server, untouched, and a request without an override that got
\* 404 and did not abort.
C18_Witness ==
    \E r \in Slots :
        /\ requests[r].phase = "Dispatched"
        /\ log[requests[r].server].complete
        /\ DefaultAndUntouched(log[requests[r].server].events)
        /\ requests[r].config.expected_state = "None"
        /\ requests[r].expected_state = None
        /\ Unwrap(requests[r].response).status = 404

\* C19: the check applied to a response is the request's override when one
\* was set (an override to none or to the opposite of the server's included),
\* and the expectation taken from the server at creation only otherwise.
C19_RequestExpectationWins ==
    [][\A r \in Slots :
        /\ Created(r) =>
              /\ requests'[r].config.expected_state
                    = server[requests'[r].server].expected_state
              /\ requests'[r].expected_state = None
        /\ KeepsConfig(r)
        /\ Completed(r) =>
              LET applied == IF requests[r].expected_state # None
                             THEN requests[r].expected_state[1]
                             ELSE requests[r].config.expected_state
                  in2xx == 200 <= ResponseStatus(r) /\ ResponseStatus(r) <= 299
              IN  Aborts(r) <=> \/ applied = "Success" /\ ~in2xx
                                \/ applied = "Failure" /\ in2xx]_vars

\* The server expects success, the request was overridden to expect failure
\* and got 404: it did not abort.
C19_Witness ==
    \E r \in Slots :
        /\ requests[r].phase = "Dispatched"
        /\ requests[r].config.expected_state = "Success"
        /\ requests[r].expected_state = Some("Failure")
        /\ Unwrap(requests[r].response).status = 404

HasResponse(r) == requests[r].phase \in {"Dispatched", "Aborted"}

GivenPath(r) == requests[r].config.request_format.path

RequestUrl(r) == Unwrap(requests[r].response).request_url

\* The response of a request that was made with an absolute URL on a server
\* that is not restricted to relative paths.
AnsweredAbsolute(r) ==
    /\ HasResponse(r)
    /\ ~server[requests[r].server].is_http_path_restricted
    /\ IsSome(ParseUrl(GivenPath(r)))

\* C20 as stated: with restrict_requests_with_http_schema false, a request
\* whose path parses as an absolute URL is sent to that URL verbatim: the
\* response's request_url, as a string, equals the given string.
C20_AbsoluteUrlVerbatim ==
    \A r \in Slots :
        AnsweredAbsolute(r) => UrlToString(RequestUrl(r)) = GivenPath(r)

\* A string that is the serialisation of the URL it parses to: of the strings
\* of the model, those that have a path.
IsSerialised(str) == IsSome(ParseUrl(str)) /\ Len(str) > 1

\* C20 amended: such a request is sent to the URL the string parses to, the
\* server's own URL being ignored; the response's request_url is that URL,
\* so as a string it equals the given string when the string is the
\* serialisation of its URL (http://ip:port/ping), and is the given string
\* followed by "/" when it is a bare origin (http://ip:port).
C20_AbsoluteUrlAsParsed ==
    \A r \in Slots :
        AnsweredAbsolute(r) =>
            /\ RequestUrl(r) = Unwrap(ParseUrl(GivenPath(r)))
            /\ RequestUrl(r).origin = GivenPath(r)[1]
            /\ IsSerialised(GivenPath(r)) => UrlToString(RequestUrl(r)) = GivenPath(r)
            /\ ~IsSerialised(GivenPath(r)) =>
                  UrlToString(RequestUrl(r)) = GivenPath(r) \o <<"/">>

\* A server bound to an address, not restricted, answered a request made with
\* its own address and "/ping" as an absolute URL.
C20_Witness ==
    \E r \in Slots :
        /\ HasResponse(r)
        /\ url(requests[r].server) = Some(BoundAddress)
        /\ ~server[requests[r].server].is_http_path_restricted
        /\ GivenPath(r) = AbsolutePath
        /\ UrlToString(RequestUrl(r)) = AbsolutePath

\* The URL of the server a request was made on: that of its transport, or
\* the default one for the mock transport.
BaseUrl(r) == UnwrapOr(url(requests[r].server), DEFAULT_URL_ADDRESS)

\* The given string as a path: with a "/" in front if it has none.
AsPath(str) == IF str # <<>> /\ str[1] = "/" THEN str ELSE <<"/">> \o str

\* C21: with restrict_requests_with_http_schema true, whatever the path
\* argument, the request goes to the server's own scheme, host and port with
\* the given string as its path; an absolute URL gives the server's URL, "/"
\* and that string, which no route matches (404).  No request goes to
\* another host.
C21_RestrictedKeepsServerOrigin ==
    \A r \in Slots :
        server[requests[r].server].is_http_path_restricted =>
            /\ InFlight(r) =>
                  /\ Unwrap(requests[r].sent).url.origin = BaseUrl(r).origin
                  /\ Unwrap(requests[r].sent).url.path = AsPath(GivenPath(r))
            /\ HasResponse(r) =>
                  /\ RequestUrl(r).origin = BaseUrl(r).origin
                  /\ UrlToString(RequestUrl(r))
                        = <<BaseUrl(r).origin>> \o AsPath(GivenPath(r))
                  /\ IsSome(ParseUrl(GivenPath(r))) =>
                        /\ UrlToString(RequestUrl(r))
                              = <<BaseUrl(r).origin, "/">> \o GivenPath(r)
                        /\ Unwrap(requests[r].response).status = 404

\* A restricted server bound to an address answered 404 to a request made
\* with its own address and "/ping" as an absolute URL.
C21_Witness ==
    \E r \in Slots :
        /\ HasResponse(r)
        /\ server[requests[r].server].is_http_path_restricted
        /\ url(requests[r].server) = Some(BoundAddress)
        /\ GivenPath(r) = AbsolutePath
        /\ UrlToString(RequestUrl(r))
              = <<"http://127.0.0.1:8080", "/", "http://127.0.0.1:8080", "/", "ping">>
        /\ Unwrap(requests[r].response).status = 404

-----------------------------------------------------------------------------
(* The address of a server *)

\* The configuration a server was constructed with, and how binding went.
ConstructedWith(s) == log[s].events[1][2]

BindOf(s) == log[s].events[1][3]

AsksForSocket(s) == ConstructedWith(s).transport \in {"HttpRandomPort", "HttpIpPort"}

Alive(s) == transport[s].handle

\* C22: server_address() is Some exactly when the server was constructed
\* with a bound-socket transport and None with the mock transport (the
\* default), and it is the same value at every point of the server's life.
C22_AddressOnlyWhenBound ==
    /\ [](\A s \in Servers :
            Alive(s) => (IsSome(server_address(s)) <=> AsksForSocket(s)))
    /\ [][\A s \in Servers :
            Alive(s) /\ Alive(s)' => server_address(s)' = server_address(s)]_vars

\* A bound server has its address after its configuration was changed and a
\* request answered.
C22_Witness ==
    /\ Alive("A")
    /\ ConstructedWith("A").transport = "HttpRandomPort"
    /\ server_address("A") = Some(BoundAddress)
    /\ server["A"].save_cookies
    /\ \E r \in Slots : requests[r].server = "A" /\ requests[r].phase = "Dispatched"

-----------------------------------------------------------------------------
(* Failure of the construction *)

ConstructionFailed(s) == AsksForSocket(s) /\ BindOf(s) = "in_use"

\* C23: when the socket cannot be bound, the construction returns the error:
\* there is no TestServer value (nothing holds the server, nothing runs for
\* it) and no request is ever created on it, so the failure is never left
\* to the first request.
C23_BindFailureIsFatalAtConstruction ==
    \A s \in Servers :
        ConstructionFailed(s) =>
            /\ ~Alive(s)
            /\ ~transport[s].running
            /\ \A r \in Slots : requests[r].phase # "Free" => requests[r].server # s

\* The construction of A failed, and the test went on with B.
C23_Witness ==
    /\ ConstructionFailed("A")
    /\ \E r \in Slots : requests[r].server = "B" /\ requests[r].phase = "Dispatched"

-----------------------------------------------------------------------------
(* Sends through the transport *)

\* The requests of a server that are inside the send of its transport.
InSend(s) == {r \in DOMAIN requests : requests[r].server = s /\ InFlight(r)}

\* C24: on a server with the mock transport at most one send is inside the
\* service at any time: the guard is held by the request that is inside its
\* send and by nobody otherwise, and it is given up with the end of that one
\* send before the next request is let in.
C24_MockSendsAreSerialised ==
    /\ [](\A s \in Servers : ~AsksForSocket(s) =>
            /\ Cardinality(InSend(s)) <= 1
            /\ \A r \in Tasks : transport[s].guard = Some(r) <=> r \in InSend(s))
    /\ [][\A s \in Servers :
            ~AsksForSocket(s) /\ IsSome(transport[s].guard)
                              /\ transport'[s].guard # transport[s].guard =>
                LET r == Unwrap(transport[s].guard)
                IN  /\ transport'[s].guard = None
                    /\ requests'[r].phase # "InFlight"
                    /\ requests[r].sends = 1]_vars

\* One request is inside the service and another one waits for the guard.
C24_Witness ==
    /\ ~AsksForSocket("A")
    /\ \E r, w \in Tasks :
          /\ r # w
          /\ InSend("A") = {r}
          /\ Building(w) /\ requests[w].server = "A"
          /\ ~ENABLED await_send(w)

\* C25: on a server with a bound socket a request is let into its send
\* whatever the other requests of the server do: no guard is held, and a
\* request that was built can be sent while others are inside their send.
C25_BoundSendsAreConcurrent ==
    \A s \in Servers : AsksForSocket(s) =>
        /\ transport[s].guard = None
        /\ \A r \in Tasks :
              Building(r) /\ requests[r].server = s => ENABLED await_send(r)

\* Two requests of one bound server are inside their send.
C25_Witness ==
    /\ AsksForSocket("A")
    /\ \E r, w \in Tasks : r # w /\ {r, w} \subseteq InSend("A")

-----------------------------------------------------------------------------
(* The lock of the shared state *)

\* C26: the lock of the shared state is held for one operation only and by
\* nobody in between, in particular not by a request that is inside its
\* send: while requests are in flight the add_ and clear_ operations of the
\* server can be carried out, and every request in flight can take its
\* response, so nothing waits for ever.
C26_StateLockNeverHeldAcrossSend ==
    \A s \in Servers :
        /\ ~state[s].locked
        /\ InSend(s) # {} =>
              /\ ENABLED add_cookie(s, Cookie("first-cookie", "my-custom-cookie"))
              /\ ENABLED clear_cookies(s)
              /\ ENABLED clear_headers(s)
              /\ ENABLED clear_query_params(s)
              /\ Len(state[s].headers) < MaxList =>
                    ENABLED add_header(s, TEST_HEADER.name, TEST_HEADER.value)
        /\ \A r \in InSend(s) :
              ENABLED await_response(r, 200, <<Cookie("second-cookie", "my-custom-cookie")>>)

\* The cookies were changed while two requests were in flight, one of them
\* sent before the change and one after it.
C26_Witness ==
    \E r, w \in Tasks :
        /\ {r, w} \subseteq InSend("A")
        /\ Unwrap(requests[r].sent).cookie # Unwrap(requests[w].sent).cookie
        /\ server["A"].save_cookies

-----------------------------------------------------------------------------
(* The life of a request *)

\* The request was consumed by its await: it is inside its send or has its
\* outcome.
Consumed(r) == requests[r].phase \in {"InFlight", "Dispatched", "Aborted", "Failed"}

\* C27: a request is lazy and single-use.  Nothing is sent when it is
\* created or changed by a builder operation; its await takes it out of
\* Building once and sends it once; a request that was consumed is never
\* Building again and is not sent again.
C27_RequestIsLazyAndSingleUse ==
    /\ [](\A r \in Slots :
            /\ Building(r) => requests[r].sends = 0 /\ requests[r].sent = None
            /\ Consumed(r) => requests[r].sends = 1)
    /\ [][\A r \in Slots :
            /\ Created(r) \/ BuilderStep(r) => requests'[r].sends = 0
            /\ requests'[r].sends # requests[r].sends /\ requests'[r].phase # "Free" =>
                  /\ Building(r)
                  /\ requests'[r].phase = "InFlight"
                  /\ IsSome(requests'[r].sent)
            /\ Consumed(r) => requests'[r].phase # "Building"
            /\ requests[r].phase \in {"Dispatched", "Aborted", "Failed"} =>
                  requests'[r].phase \in {requests[r].phase, "Free"}]_vars

\* A request that was changed by a builder operation before its await has
\* its response after one send.
C27_Witness ==
    \E r \in Slots :
        /\ requests[r].phase = "Dispatched"
        /\ IsSome(requests[r].expected_state)
        /\ requests[r].sends = 1

-----------------------------------------------------------------------------
(* Failure of the transport *)

Failed(r) == requests[r].phase = "Failed"

\* C28: when the send of the transport fails, the await ends with the error
\* and nothing is tried again: the request was sent once, it has no
\* response, the cookie jar of the server is as it was before the failure,
\* and the request stays failed until it is dropped.
C28_TransportErrorIsFatal ==
    /\ [](\A r \in Slots :
            Failed(r) => requests[r].response = None /\ requests[r].sends = 1)
    /\ [][\A r \in Slots :
            /\ InFlight(r) /\ requests'[r] # requests[r] =>
                  /\ requests'[r].phase \in {"Dispatched", "Aborted", "Failed"}
                  /\ requests'[r].sends = 1
            /\ InFlight(r) /\ Failed(r)' => state' = state
            /\ Failed(r) => requests'[r] \in {requests[r], FreeSlot}]_vars

\* A request that saves cookies failed on a server with a cookie in its jar.
C28_Witness ==
    \E r \in Slots :
        /\ Failed(r)
        /\ IsSavingCookies(requests[r])
        /\ state[requests[r].server].cookies # {}

-----------------------------------------------------------------------------
(* Teardown *)

\* C29: when the last handle to a server with a bound socket is gone (the
\* TestServer value and every request that was not yet consumed), the
\* accept-loop task and the port are released in that very step: nothing
\* is waited for.
C29_LastHandleReleasesSocket ==
    \A s \in Servers :
        AsksForSocket(s) /\ ~Alive(s) /\ Holders(s, requests) = {} =>
            ~transport[s].running

\* The server was bound, answered a request and was dropped; the response
\* is still there.
C29_Witness ==
    /\ AsksForSocket("A") /\ BindOf("A") = "bound"
    /\ ~Alive("A")
    /\ ~transport["A"].running
    /\ \E r \in Slots : requests[r].server = "A" /\ requests[r].phase = "Dispatched"

-----------------------------------------------------------------------------
(* The snapshot a request takes of its server *)

\* The settings of server s that a request takes with it.
SettingsOf(s) ==
    [is_saving_cookies |-> server[s].save_cookies,
     expected_state |-> server[s].expected_state,
     content_type |-> server[s].default_content_type,
     origin |-> UnwrapOr(url(s), DEFAULT_URL_ADDRESS).origin]

Snapshot(r) ==
    [is_saving_cookies |-> requests[r].config.is_saving_cookies,
     expected_state |-> requests[r].config.expected_state,
     content_type |-> requests[r].config.content_type,
     origin |-> requests[r].config.full_request_url.origin]

\* C30: the save-cookies flag, the expectation, the default content type
\* and the URL of a request are those its server had when the request was
\* created.  Changing the server afterwards changes no request, and the
\* request is sent and answered by its snapshot: it goes to the URL and with
\* the content type of the snapshot, cookies are written back, and the test
\* is aborted, as the snapshot says.
C30_RequestKeepsCreationSnapshot ==
    [][\A r \in Slots :
        /\ Created(r) => Snapshot(r)' = SettingsOf(requests'[r].server)
        /\ server' # server => requests' = requests
        /\ KeepsConfig(r)
        /\ Building(r) /\ InFlight(r)' =>
              /\ Unwrap(requests'[r].sent).url = requests[r].config.full_request_url
              /\ Unwrap(requests'[r].sent).content_type = requests[r].config.content_type
        /\ Completed(r) =>
              /\ IF requests[r].config.is_saving_cookies
                 THEN state'[requests[r].server].cookies
                        = JarAddSeq(state[requests[r].server].cookies,
                                    Unwrap(requests'[r].response).set_cookies)
                 ELSE state' = state
              /\ Aborts(r) <=>
                    ~MeetsExpectation(requests[r].config.expected_state, ResponseStatus(r))]_vars

\* A request was created on a server that saved cookies and expected
\* nothing; the server was then told not to save and to expect failure; the
\* request was answered with success and its cookie is in the jar.
C30_Witness ==
    \E r \in Slots :
        /\ requests[r].phase = "Dispatched"
        /\ requests[r].config.is_saving_cookies
        /\ requests[r].config.expected_state = "None"
        /\ ~server[requests[r].server].save_cookies
        /\ server[requests[r].server].expected_state = "Failure"
        /\ Unwrap(requests[r].response).status = 200
        /\ state[requests[r].server].cookies # {}

-----------------------------------------------------------------------------
(* The shared state is merged at the await *)

\* C31: what a request sends of the server's cookies, headers and query
\* parameters is what the server (here: A, on which every request is made)
\* has when the request is awaited, whatever it had when the request was
\* created.
C31_MergedAtAwait ==
    [][\A r \in Slots :
        Building(r) /\ InFlight(r)' =>
            LET out == Unwrap(requests'[r].sent)
            IN  /\ out.cookie = CookieHeader(state["A"].cookies)
                /\ out.headers = state["A"].headers \o requests[r].headers
                /\ out.query_params = state["A"].query_params \o requests[r].query_params]_vars

\* A request that was created on the server when it had nothing sends the
\* cookie, the header and the query parameter that were added since.
C31_Witness ==
    \E r \in Slots :
        /\ InFlight(r)
        /\ Unwrap(requests[r].sent).method = "GET"
        /\ Unwrap(requests[r].sent).cookie
              = Some({<<"first-cookie", "my-custom-cookie">>})
        /\ Unwrap(requests[r].sent).headers = <<TEST_HEADER>>
        /\ Unwrap(requests[r].sent).query_params = <<MESSAGE_PARAM>>

-----------------------------------------------------------------------------
(* Atomicity of the operations on the shared state *)

\* The cookies a request in flight was sent with, as pairs of name and value.
SentPairs(r) == UnwrapOr(Unwrap(requests[r].sent).cookie, {})

PairsOf(jar) == {<<c.name, c.value>> : c \in jar}

\* C32: an operation on the shared state is seen by a request as a whole or
\* not at all: where cookies come to the server only in jars added by
\* add_cookies, every request is sent with all the cookies of the jar or
\* with none of them, in every interleaving with the tasks that make and
\* await requests.
C32_MutationsAreAtomic ==
    \A r \in Tasks : InFlight(r) =>
        \A j \in JarsToAdd :
            \/ PairsOf(j) \subseteq SentPairs(r)
            \/ PairsOf(j) \cap SentPairs(r) = {}

\* Of two requests in flight together, one was sent before the jar was
\* added and the other after: the first with no cookie, the second with
\* both.
C32_Witness ==
    \E r, w \in Tasks :
        /\ InFlight(r) /\ InFlight(w)
        /\ SentPairs(r) = {}
        /\ \E j \in JarsToAdd : SentPairs(w) = PairsOf(j) /\ Cardinality(j) = 2

-----------------------------------------------------------------------------
(* Write-back into the jar *)

\* C33: the cookies of a response are merged into the jar by name.  After
\* a write-back the jar holds, for every name the response set, the last
\* cookie the response set under it and no other; the cookies of other
\* names are kept; and whatever is added and written back, the jar never
\* holds two cookies of one name.
C33_WriteBackReplacesByName ==
    /\ [](\A s \in Servers : IsJar(state[s].cookies))
    /\ [][\A r \in Slots :
            Completed(r) /\ IsSavingCookies(requests[r]) =>
                LET s == requests[r].server
                    set == LastByName(Unwrap(requests'[r].response).set_cookies)
                IN  state'[s].cookies =
                        {c \in state[s].cookies : c.name \notin JarNames(set)} \cup set]_vars

\* A cookie that the test added was replaced by the cookie of that name
\* that a response set.
C33_Witness ==
    /\ log["A"].complete
    /\ log["A"].events =
          << <<"add_cookie", Cookie("first-cookie", "my-custom-cookie")>>,
             <<"save", <<Cookie("first-cookie", "other-cookie")>> >> >>
    /\ state["A"].cookies = {Cookie("first-cookie", "other-cookie")}

-----------------------------------------------------------------------------
(* Write-backs of requests in flight together *)

\* The cookies that the response of r set and that r was to save.
Saved(r) ==
    IF requests[r].phase = "Dispatched" /\ IsSavingCookies(requests[r])
    THEN LastByName(Unwrap(requests[r].response).set_cookies)
    ELSE {}

\* C34: no write-back is lost.  When two requests of the server (here: A,
\* on which every request is made) that save cookies were in flight together
\* and their responses set cookies of different names, the jar holds the
\* cookies of both once both have their responses, whichever was sent first
\* and whichever was answered first.
C34_NoWriteBackLost ==
    \A r, w \in Tasks :
        (r # w /\ Saved(r) # {} /\ Saved(w) # {}
              /\ JarNames(Saved(r)) \cap JarNames(Saved(w)) = {}) =>
            Saved(r) \cup Saved(w) \subseteq state["A"].cookies

\* Two requests that were in flight together have their responses, one
\* setting the first cookie and one the second, and both are in the jar.
C34_Witness ==
    \E r, w \in Tasks :
        /\ Saved(r) = {Cookie("first-cookie", "my-custom-cookie")}
        /\ Saved(w) = {Cookie("second-cookie", "my-custom-cookie")}
        /\ state["A"].cookies = Saved(r) \cup Saved(w)

-----------------------------------------------------------------------------
(* Requests that outlive their server *)

\* C35: a request holds the transport and the shared state of its server
\* with it.  As long as a request that was created on a server is not
\* consumed and gone, the transport of the server is alive (a bound
\* socket's accept loop runs and its port is held), also after the
\* TestServer value was dropped; such a request can still be awaited, and
\* while it is inside its send the transport is alive.
C35_TransportOutlivesServer ==
    \A r \in Slots :
        requests[r].phase \in {"Building", "InFlight"} =>
            LET s == requests[r].server
            IN  /\ transport[s].running
                /\ Building(r) /\ transport[s].guard = None => ENABLED await_send(r)

\* The server was bound and dropped, and a request created on it before is
\* inside its send, the accept loop still running.
C35_Witness ==
    /\ AsksForSocket("A") /\ BindOf("A") = "bound"
    /\ ~Alive("A")
    /\ transport["A"].running
    /\ \E r \in Slots : requests[r].server = "A" /\ InFlight(r)

-----------------------------------------------------------------------------
(* What the operations on a server leave alone *)

\* The step is a call of one of the named operations on server s.
Did(s, names) ==
    /\ log[s].complete /\ log'[s].complete
    /\ Len(log'[s].events) = Len(log[s].events) + 1
    /\ Last(log'[s].events)[1] \in names

CookieOperations == {"add_cookie", "add_cookies", "clear_cookies"}

HeaderOperations == {"add_header", "clear_headers"}

QueryOperations == {"add_query_param", "add_query_params", "clear_query_params"}

\* C36: an operation on the cookies of a server leaves its headers and
\* query parameters as they are, one on the headers its cookies and query
\* parameters, one on the query parameters its cookies and headers; and
\* none of them changes the save-cookies flag, the expectation, the default
\* content type or the address of the server.
C36_MutatorsKeepTheirFrame ==
    [][\A s \in Servers :
        /\ Did(s, CookieOperations) =>
              /\ state'[s].headers = state[s].headers
              /\ state'[s].query_params = state[s].query_params
        /\ Did(s, HeaderOperations) =>
              /\ state'[s].cookies = state[s].cookies
              /\ state'[s].query_params = state[s].query_params
        /\ Did(s, QueryOperations) =>
              /\ state'[s].cookies = state[s].cookies
              /\ state'[s].headers = state[s].headers
        /\ Did(s, CookieOperations \cup HeaderOperations \cup QueryOperations) =>
              /\ server'[s] = server[s]
              /\ server_address(s)' = server_address(s)]_vars

\* A bound server that saves cookies and expects success had a cookie, a
\* header and a query parameter added, and has all three and its settings.
C36_Witness ==
    /\ log["A"].complete
    /\ Len(log["A"].events) = 3
    /\ state["A"].cookies # {} /\ state["A"].headers # <<>> /\ state["A"].query_params # <<>>
    /\ server["A"].save_cookies
    /\ server["A"].expected_state = "Success"
    /\ server["A"].default_content_type = Some(TEXT_CONTENT_TYPE)
    /\ IsSome(server_address("A"))

=============================================================================
